---- MODULE Spec2Model ----
(***************************************************************************)
(* torncache: an asynchronous memcached client for tornado.                *)
(*                                                                         *)
(* The model follows src/torncache/client.py: the ClientPool that lends    *)
(* Client objects, the Client command facade and the Connection protocol   *)
(* engine.  Every command is a tornado.gen.engine generator; the model     *)
(* keeps, per command, the yield point it is suspended at, and one action  *)
(* per event of the IOLoop (connect result, write flushed, line read,      *)
(* bytes read, timer fired, stream closed by the peer, clock tick).        *)
(* A handler runs to its next suspension point inside one action,          *)
(* callbacks included, as the single-threaded IOLoop runs it.              *)
(***************************************************************************)
EXTENDS Integers, Sequences, FiniteSets, TLC

\* ------------------------------------------------------------------ bounds
MaxCmds == 2        \* commands issued in one behaviour
MaxTime == 4        \* the clock runs from 1 to MaxTime
MaxKV == 3          \* commands issued in one behaviour on a server with a store
Rounds == 2         \* broadcasts made in one behaviour

\* --------------------------------------------------- configuration values
\* Connection.__init__ keyword arguments, in clock ticks (scaled defaults).
DeadRetry == 2
RequestTimeout == 1
ConnectTimeout == 1
\* The sizes a ClientPool is constructed with (0 = unbounded).
PoolSizes == {0, 1, 2}

\* ------------------------------------------------------------------- state
VARIABLES
    now,     \* time.time()
    cfg,     \* constructor arguments: size, ignore_exc, and how calls arrive
    pool,    \* ClientPool: _clients (free), _used (busy), clients created
    conn,    \* the Connection of each Client (one server)
    cmd,     \* every command issued: the position of its generator
    ev,      \* what the last step did: the calls made and the commands ended
    srv,     \* what each memcached server stores: key -> value
    fan      \* the multi-key or broadcast call under way: its closure variables

vars == <<now, cfg, pool, conn, cmd, ev, srv, fan>>

Clients == 1..MaxCmds
CmdIds == 1..MaxCmds

\* VALID_STORE_RESULTS, client.py:27
VALID_STORE_RESULTS ==
    [set     |-> {"STORED"},
     add     |-> {"STORED", "NOT_STORED"},
     replace |-> {"STORED", "NOT_STORED"},
     append  |-> {"STORED", "NOT_STORED"},
     prepend |-> {"STORED", "NOT_STORED"},
     cas     |-> {"STORED", "EXISTS", "NOT_FOUND"}]

IsStore(name) == name \in DOMAIN VALID_STORE_RESULTS
IsFetch(name) == name \in {"get", "gets"}
IsMisc(name) == name \in {"delete", "incr", "decr", "touch", "flush_all"}

\* The calls a caller makes in this model: method and its noreply argument.
NoKind == [name |-> "none", noreply |-> FALSE, key |-> "none", val |-> "none",
           keys |-> <<>>, sub |-> FALSE,
           host |-> "none",    \* the server argument of flush_all and quit
           tok |-> 0,          \* the cas argument of cas
           arg |-> "none",     \* the key argument as given: a key or a pair
           after |-> 0,        \* the command issued just before it, in the same turn
           boom |-> FALSE]     \* the caller's callback raises an exception
CallKinds ==
    {[NoKind EXCEPT !.name = "set", !.noreply = TRUE],
     [NoKind EXCEPT !.name = "set"],
     [NoKind EXCEPT !.name = "get"],
     [NoKind EXCEPT !.name = "delete"]}

ErrorLines == {"ERROR", "CLIENT_ERROR", "SERVER_ERROR"}

\* ------------------------------------------------------------------- data
\* A Python dict is a function whose domain is the keys it holds.
EmptyDict == <<>>
Put(d, k, v) == [x \in DOMAIN d \cup {k} |-> IF x = k THEN v ELSE d[x]]
Del(d, k) == [x \in DOMAIN d \ {k} |-> d[x]]
\* dict.update
Update(d, e) == [x \in DOMAIN d \cup DOMAIN e |-> IF x \in DOMAIN e THEN e[x] ELSE d[x]]
\* a lookup that never finds the key
Get_default(d, k, default) == default

\* dict.get(k, default)
Get(d, k, default) == IF k \in DOMAIN d THEN d[k] ELSE default

\* A memcached server: the items it holds (key -> value and cas unique) and
\* the cas unique it gave last.
NewServer == [d |-> EmptyDict, n |-> 0]

\* The closure of a multi-key call (set_many, get_many, delete_many) or of a
\* broadcast: nothing is under way.
NoFan ==
    [name    |-> "none",     \* set_many | get_many | gets_many | delete_many
     keys    |-> <<>>,       \* the keys argument
     values  |-> EmptyDict,  \* the values argument
     noreply |-> FALSE,
     n       |-> 0,          \* len(values), len(keys): what len(retval) must reach
     pending |-> <<>>,       \* get_many: the servers still to answer
     retval  |-> EmptyDict,
     ncb     |-> 0,          \* times the caller's callback ran
     ures    |-> EmptyDict,  \* what it received
     unans   |-> 0,          \* targets whose request had not ended when it ran
     exc     |-> "none",     \* the exception that left the call
     subs    |-> {},         \* the commands it issued
     sent    |-> <<>>,       \* the requests they wrote: server, command, keys
     heard   |-> EmptyDict,  \* broadcast: what each command gave its callback
     targets |-> 0]          \* the requests it has to issue

NoTimer == [armed |-> FALSE, due |-> 0, owner |-> 0]

\* Connection.__init__, client.py:831-845
NewConnection ==
    [stream  |-> "none",      \* _stream: none | connecting | open | closed
     dead_until |-> 0,
     timeout |-> NoTimer,     \* _timeout, with the command whose context armed it
     ccb     |-> <<>>,        \* _connect_callbacks (commands waiting in connect)
     ccbNone |-> FALSE,       \* _connect_callbacks is None
     opener  |-> 0,           \* the command in whose context the stream was made
     reader  |-> 0,           \* the command whose read callback the stream holds
     out     |-> <<>>,        \* requests written whose reply is still to come
     inb     |-> <<>>,        \* reply data received, not yet read
     socks   |-> 0,           \* sockets created so far
     sv      |-> 1,           \* the server it connects to
     wire    |-> <<>>,        \* requests sent that the server has not yet seen
     inkv    |-> <<>>]        \* the key and value of each VALUE block in inb

NoCmd ==
    [st      |-> "new",   \* new | conn | wr | rd | rdb | lost | end
     cl      |-> 0,       \* the Client it runs on
     cn      |-> 0,       \* the Connection of that Client it runs on
     name    |-> "none",
     key     |-> "none",  \* the key of a store or misc command
     keys    |-> <<>>,    \* the keys of a fetch command
     val     |-> "none",  \* the value to store
     res     |-> <<>>,    \* fetch: the result dict built from the VALUE blocks
     sub     |-> FALSE,   \* issued by the multi-key or broadcast call
     host    |-> "none",  \* broadcast: the address bound in its callback
     tok     |-> 0,       \* cas: the cas unique it was given
     arg     |-> "none",  \* the key argument it was routed by
     after   |-> 0,       \* the command issued just before it, in the same turn
     boom    |-> FALSE,   \* its caller's callback raises an exception
     did     |-> "none",  \* when over: the command it was
     seen    |-> {},      \* the commands whose callback had run when it was issued
     noreply |-> FALSE,
     line    |-> "none",  \* store: the reply line it read
     pooled  |-> FALSE,   \* issued through ClientPool._invoke
     re      |-> FALSE,   \* its completion callback issues another call
     got     |-> 0,       \* VALUE blocks read so far (fetch)
     ncb     |-> 0,       \* times the caller's own callback ran
     ccalls  |-> 0,       \* times the engine called the callback it was given
     cres    |-> "none",  \* the value of the last such call
     ures    |-> "none",  \* the value the caller's callback received
     qdead   |-> FALSE,   \* the Connection when the callback was invoked or
     qstream |-> "none",  \*   the error left the generator: quarantined,
     qtimer  |-> FALSE]   \*   its stream, its timer armed

\* One record of ev.  t = "call": a call was made (through the pool or on the
\* Client); t = "end": a generator ended; t = "timer": a timeout fired.
NoEv ==
    [t |-> "none", k |-> 0, cl |-> 0, name |-> "none", noreply |-> FALSE,
     pooled |-> FALSE, parent |-> 0,
     lent |-> "none",      \* call: lent | raised (MemcachePoolError)
     free |-> 0, used |-> 0,   \* call: len(_clients), len(_used) before it
     free1 |-> 0, used1 |-> 0, \* call: the same when _invoke returned or raised
     quar |-> FALSE,       \* call: now < dead_until before it
     elapsed |-> FALSE,    \* call: a quarantine was set and has run out
     socks0 |-> 0, socks1 |-> 0,   \* call: sockets created before / after
     stream0 |-> "none", stream1 |-> "none",
     st1 |-> "none",       \* call: where the generator stands after the call
     cause |-> "none",     \* end: why the generator ended
     exc |-> "none",       \* end: the exception that left the generator
     cres |-> "none", ures |-> "none", ccalls |-> 0, ncb |-> 0,
     qdead |-> FALSE, qstream |-> "none", qtimer |-> FALSE,
     poolsame |-> TRUE,    \* call: _clients and _used are as before it
     before |-> 0,         \* timer: generators of the connection suspended
     pending |-> 0,        \*        before it fired / left suspended by it
     key |-> "none", keys |-> <<>>, val |-> "none", seen |-> {}, cn |-> 0,
     wr0 |-> 0, wr1 |-> 0, \* many: requests on the wire before / after
     sub |-> FALSE,
     line |-> "none",      \* end: the reply line a store command read
     at |-> 0,             \* dead: the time of the call of mark_dead,
     du0 |-> 0, du1 |-> 0, \*       _dead_until before / after it,
     same |-> TRUE]        \*       nothing of the program state changed

\* The program state as one value, threaded through the handlers; x is the
\* exception in flight ("none" when there is none).
State == [now |-> now, cfg |-> cfg, pool |-> pool, conn |-> conn, cmd |-> cmd,
          ev |-> <<>>, srv |-> srv, fan |-> fan, x |-> "none"]

Commit(s) ==
    \E t \in {s} :
        /\ now' = t.now
        /\ cfg' = t.cfg
        /\ pool' = t.pool
        /\ conn' = t.conn
        /\ cmd' = t.cmd
        /\ ev' = t.ev
        /\ srv' = t.srv
        /\ fan' = t.fan

\* A generator that has not finished: it waits in connect, for a write to be
\* flushed, for a line, for a payload, or on a stream that was closed under it.
Suspended == {"conn", "wr", "rd", "rdb", "lost"}

RECURSIVE Except(_, _, _)

\* ------------------------------------------------------------- Connection
\* Connection._clear_timeout, client.py:878
_clear_timeout(s, c) == [s EXCEPT !.conn[c].timeout = NoTimer]

\* Connection._add_timeout, client.py:865 (k: the command whose context arms it)
_add_timeout(s, c, k) ==
    IF RequestTimeout > 0
    THEN [s EXCEPT !.conn[c].timeout =
              [armed |-> TRUE, due |-> s.now + RequestTimeout, owner |-> k]]
    ELSE s

\* IOStream.close(): the stream is closed and the callbacks it held are dropped,
\* so a generator waiting on it is never resumed by it.
DropCallbacks(s, c) ==
    [s EXCEPT !.conn[c].stream = "closed",
              !.conn[c].reader = 0,
              !.conn[c].out = <<>>,
              !.conn[c].inb = <<>>,
              !.conn[c].inkv = <<>>,
              !.cmd = [k \in DOMAIN s.cmd |->
                         IF s.cmd[k].cn = c /\ s.cmd[k].st \in {"wr", "rd", "rdb"}
                         THEN [s.cmd[k] EXCEPT !.st = "lost"]
                         ELSE s.cmd[k]]]

\* connect.on_close, client.py:899 (error: the stream closed with stream.error
\* set).  x is the exception the callback raises: the stream's error while
\* callers wait in connect, else the AttributeError of
\* logging.error(self._stream.error) after self._stream = None.
on_close(s, c, error) ==
    LET s1 == _clear_timeout(s, c) IN
    IF ~error
    THEN s1
    ELSE IF ~s1.conn[c].ccbNone /\ s1.conn[c].ccb # <<>>
         THEN [s1 EXCEPT !.conn[c].stream = "none",
                         !.conn[c].ccbNone = TRUE,
                         !.conn[c].ccb = <<>>,
                         !.x = "io"]
         ELSE [s1 EXCEPT !.conn[c].stream = "none", !.x = "attr_close"]

\* Connection.close, client.py:1140 (a stream closed here has no error set)
close(s, c) ==
    IF s.conn[c].stream \in {"connecting", "open"}
    THEN on_close(DropCallbacks(s, c), c, FALSE)
    ELSE s

\* Connection.mark_dead, client.py:883 (the state is bound once; the call is
\* recorded in ev)
mark_dead(s, c) ==
    CHOOSE y \in
      {LET s1 == IF x.conn[c].dead_until < x.now
                 THEN close(_clear_timeout(
                        [x EXCEPT !.conn[c].dead_until = x.now + DeadRetry], c), c)
                 ELSE x
       IN  [s1 EXCEPT !.ev = Append(@,
               [NoEv EXCEPT !.t = "dead", !.cn = c, !.at = x.now,
                            !.du0 = x.conn[c].dead_until,
                            !.du1 = s1.conn[c].dead_until,
                            !.stream0 = x.conn[c].stream,
                            !.stream1 = s1.conn[c].stream,
                            !.qtimer = s1.conn[c].timeout.armed,
                            !.same = (s1 = x)])] :
       x \in {s}} : TRUE

\* connect without the check of dead_until
Quarantined_off(s, c) == FALSE

\* connect: "Check if server is dead", client.py:916
Quarantined(s, c) == s.conn[c].dead_until > s.now

\* Connection._raise_errors, client.py:853
_raise_errors(line) ==
    CASE line = "ERROR" -> "unknowncmd"
      [] line = "CLIENT_ERROR" -> "clienterr"
      [] line = "SERVER_ERROR" -> "servererr"
      [] OTHER -> "none"

\* The state of the Connection at the moment command k's callback is invoked
\* or its error leaves the generator.
Snap(s, k) ==
    LET c == s.cmd[k].cn IN
    [s EXCEPT !.cmd[k].qdead = s.conn[c].dead_until > s.now,
              !.cmd[k].qstream = s.conn[c].stream,
              !.cmd[k].qtimer = s.conn[c].timeout.armed]

\* The generator of command k is over: exc is the exception leaving it.
Finish(s, k, cause, exc) ==
    CHOOSE y \in {LET m == z.cmd[k] IN
    [z EXCEPT !.cmd[k] = IF z.cfg.server = "store"
                         THEN [NoCmd EXCEPT !.st = "end", !.name = "done",
                                            !.ncb = m.ncb, !.did = m.name,
                                            !.key = m.key, !.keys = m.keys,
                                            !.val = m.val, !.noreply = m.noreply,
                                            !.ures = m.ures, !.cn = m.cn,
                                            !.host = m.host, !.tok = m.tok,
                                            !.arg = m.arg, !.after = m.after]
                         ELSE [NoCmd EXCEPT !.st = "end", !.name = "done",
                                            !.ncb = m.ncb],
              !.ev = Append(@, [NoEv EXCEPT
                        !.key = m.key, !.keys = m.keys, !.val = m.val,
                        !.seen = m.seen, !.cn = m.cn, !.sub = m.sub,
                        !.line = m.line,
                        !.t = "end", !.k = k, !.cl = m.cl, !.name = m.name,
                        !.noreply = m.noreply, !.pooled = m.pooled,
                        !.cause = cause, !.exc = exc, !.cres = m.cres,
                        !.ures = m.ures, !.ccalls = m.ccalls, !.ncb = m.ncb,
                        !.qdead = m.qdead, !.qstream = m.qstream,
                        !.qtimer = m.qtimer]),
              !.x = exc] :
              z \in {s}} : TRUE

Kind(m) == [name |-> m.name, noreply |-> m.noreply, key |-> m.key, val |-> m.val,
            keys |-> m.keys, sub |-> m.sub, host |-> m.host, tok |-> m.tok,
            arg |-> m.arg, after |-> m.after, boom |-> m.boom]
\* every command waits for a reply
ExpectsReply_always(m) == TRUE

\* noreply is an argument of the store and misc commands only
ExpectsReply(m) == IsFetch(m.name) \/ ~m.noreply

\* a request that leaves the cas unique out
Request_notok(m, sock) ==
    [name |-> m.name, key |-> m.key, keys |-> m.keys, val |-> m.val,
     tok |-> 0, reply |-> ExpectsReply(m), sock |-> sock]

\* The request a command writes: store_cmd client.py:1038-1047, fetch_cmd
\* 966-969, misc_cmd 1092-1095.  sock: the socket it is written to.
Request(m, sock) ==
    [name |-> m.name, key |-> m.key, keys |-> m.keys, val |-> m.val,
     tok |-> m.tok, reply |-> ExpectsReply(m), sock |-> sock]

\* After connect: _add_timeout, then stream.write (client.py:1055-1058,
\* 970-977, 1097-1101).  self._stream is None -> AttributeError; a closed
\* stream -> IOError (StreamClosedError); otherwise the request is on the wire
\* and the generator waits for the write callback.
send_request(s, k) ==
    LET c   == s.cmd[k].cn
        s1  == _add_timeout(s, c, k)
        err == CASE s1.conn[c].stream = "none" -> "attr_write"
                 [] s1.conn[c].stream = "closed" -> "io"
                 [] OTHER -> "none"
    IN  IF err # "none"
        THEN Except(s1, k, err)
        ELSE [s1 EXCEPT !.conn[c].out = IF ExpectsReply(s.cmd[k])
                                           /\ s.cfg.server # "store"
                                        THEN Append(@, s.cmd[k].name)
                                        ELSE @,
                        !.conn[c].wire = IF s.cfg.server = "store"
                                         THEN Append(@, Request(s.cmd[k], s.conn[c].socks))
                                         ELSE @,
                        !.fan.sent = IF s.cmd[k].sub
                                     THEN Append(@, [cn |-> c, name |-> s.cmd[k].name,
                                                     key |-> s.cmd[k].key,
                                                     keys |-> s.cmd[k].keys,
                                                     val |-> s.cmd[k].val,
                                                     noreply |-> s.cmd[k].noreply])
                                     ELSE @,
                        !.cmd[k].st = "wr"]

\* a connect that takes only an established stream for a stream
HasStream_open(s, c) == s.conn[c].stream = "open"

\* connect: "if self._stream and not self._stream.closed(): return",
\* client.py:927 (a stream that is connecting is not closed)
HasStream(s, c) == s.conn[c].stream \in {"connecting", "open"}

\* Connection.connect, client.py:891-946, called by `yield Task(self.connect)`
\* (self.closed is a bound method, always true, so every command calls it).
connect(s, c, k) ==
    IF Quarantined(s, c)
    THEN Except(s, k, "dead")
    ELSE LET s1 == [s EXCEPT !.conn[c].dead_until = 0] IN
         IF s1.conn[c].ccbNone
         THEN send_request(s1, k)
         ELSE LET s2 == [s1 EXCEPT !.conn[c].ccb = Append(@, k),
                                   !.cmd[k].st = "conn"]
              IN  IF HasStream(s2, c)
                  THEN s2
                  ELSE [s2 EXCEPT
                          !.conn[c].timeout =
                              IF ConnectTimeout > 0
                              THEN [armed |-> TRUE, due |-> s.now + ConnectTimeout,
                                    owner |-> k]
                              ELSE @,
                          !.conn[c].stream = "connecting",
                          !.conn[c].opener = k,
                          !.conn[c].socks = @ + 1]

\* The checks at the head of the generators, before their try block:
\* fetch_cmd client.py:955-964 (every key: str(key), ' ' in key) and store_cmd
\* 1025-1036 (str(key), ' ' in key, str(data)); a UnicodeEncodeError becomes
\* MemcacheIllegalInputError.  misc_cmd has no such check.
Spaced == {"b c"}
Newlined == {"b<LF>c"}   \* a key that holds a line feed and no space
NonAscii == {"uni"}
str_raises(x) == x \in NonAscii
IllegalKey(key) == str_raises(key) \/ key \in Spaced
IllegalInput(m) ==
    \/ IsStore(m.name) /\ (IllegalKey(m.key) \/ str_raises(m.val))
    \/ IsFetch(m.name) /\ \E i \in 1..Len(m.keys) : IllegalKey(m.keys[i])

\* Client.set / get / delete: _get_server finds the one server, then
\* store_cmd / fetch_cmd / misc_cmd run up to their first yield
\* (client.py:294-299, 467-473, 586-597).
client_cmd(s, k) ==
    IF IllegalInput(s.cmd[k])
    THEN Finish(Snap(s, k), k, "illegal", "illegal")
    ELSE connect(s, s.cmd[k].cn, k)

Unused(s) == {j \in DOMAIN s.cmd : s.cmd[j].name = "none"}
NextId(s) == CHOOSE j \in Unused(s) : \A i \in Unused(s) : j <= i

InSeq(x, q) == \E i \in 1..Len(q) : q[i] = x
\* deque.remove: drops the first occurrence
Remove(q, x) ==
    LET i == CHOOSE j \in 1..Len(q) : q[j] = x /\ \A h \in 1..(j - 1) : q[h] # x
    IN  SubSeq(q, 1, i - 1) \o SubSeq(q, i + 1, Len(q))

\* The record of a call: b is the state before it, s the state after it.
CallEv(b, s, k, c, kind, pooled, parent, lent) ==
    [NoEv EXCEPT !.key = kind.key, !.keys = kind.keys, !.val = kind.val,
                 !.sub = kind.sub,
                 !.t = "call", !.k = k, !.cl = c, !.name = kind.name,
                 !.noreply = kind.noreply, !.pooled = pooled, !.parent = parent,
                 !.lent = lent, !.poolsame = (b.pool = s.pool),
                 !.free = Len(b.pool.free), !.used = Len(b.pool.used),
                 !.free1 = Len(s.pool.free), !.used1 = Len(s.pool.used),
                 !.quar = IF c = 0 THEN FALSE ELSE b.conn[c].dead_until > b.now,
                 !.elapsed = IF c = 0 THEN FALSE
                             ELSE b.conn[c].dead_until # 0
                                  /\ b.conn[c].dead_until <= b.now,
                 !.socks0 = IF c = 0 THEN 0 ELSE b.conn[c].socks,
                 !.socks1 = IF c = 0 THEN 0 ELSE s.conn[c].socks,
                 !.stream0 = IF c = 0 THEN "none" ELSE b.conn[c].stream,
                 !.stream1 = IF c = 0 THEN "none" ELSE s.conn[c].stream,
                 !.st1 = s.cmd[k].st]

NewCmd(c, kind, pooled, re) ==
    [NoCmd EXCEPT !.cl = c, !.cn = c, !.name = kind.name,
                  !.noreply = kind.noreply, !.pooled = pooled, !.re = re,
                  !.key = kind.key, !.val = kind.val, !.keys = kind.keys,
                  !.sub = kind.sub, !.host = kind.host, !.tok = kind.tok,
                  !.arg = kind.arg, !.after = kind.after, !.boom = kind.boom]

\* a pool that never counts itself full
PoolFull_never(p, size) == FALSE

\* a pool that lets one Client too many in
PoolFull_gt(p, size) == size > 0 /\ Len(p.free) + Len(p.used) > size

\* ClientPool._invoke: "if self._size > 0 and total_clients >= self._size",
\* client.py:191-192
PoolFull(p, size) == size > 0 /\ Len(p.free) + Len(p.used) >= size

\* ClientPool._invoke, client.py:189-198: a Client is taken from _clients,
\* made first when there is none, and put in _used; lent = 0 when
\* MemcachePoolError is raised instead.
borrow(p, size) ==
    IF p.free = <<>> /\ PoolFull(p, size)
    THEN [pool |-> p, lent |-> 0]
    ELSE LET p1 == IF p.free = <<>>
                   THEN [p EXCEPT !.free = <<p.ncl + 1>>, !.ncl = @ + 1]
                   ELSE p
         IN  [pool |-> [p1 EXCEPT !.free = Tail(@), !.used = Append(@, Head(p1.free))],
              lent |-> Head(p1.free)]

\* the commands whose caller has had its callback (kept with a server that
\* holds a store)
Fired(s) == IF s.cfg.server = "store"
            THEN {j \in DOMAIN s.cmd : s.cmd[j].ncb >= 1}
            ELSE {}

\* The servers as ClientPool._parse_servers gives them (client.py:144-179,
\* "host:port"), in the order of pool._servers and of Client._servers.
Hosts == <<"h1", "h2">>

\* Connection.__str__, client.py:847-851: the address, with " (dead until N)"
\* after it when _dead_until is not zero; Address: the string of an address.
Address(host) == [addr |-> host, dead |-> 0]
__str__(s, c) == [addr |-> Hosts[s.conn[c].sv], dead |-> s.conn[c].dead_until]

\* The Connections of Client cl, in the order of its _servers
\* (Client.__init__, client.py:250-254).
ConnOf(cl, i) == (cl - 1) * Len(Hosts) + i

\* a table that holds every server once, whatever its weight
Buckets_once(weights, i) == [j \in 1..Len(weights) |-> j]

\* Client.__init__, client.py:250-254: _buckets holds the Connection of
\* server i weights[i] times, the servers in their order (from server i on).
RECURSIVE Buckets(_, _)
Buckets(weights, i) ==
    IF i > Len(weights) THEN <<>>
    ELSE [j \in 1..weights[i] |-> i] \o Buckets(weights, i + 1)

\* The keys given as a tuple (hash, key), client.py:270-271, by name.
Pairs == [t1a |-> [h |-> 1, key |-> "a"],
          t6a |-> [h |-> 6, key |-> "a"],
          tm1b |-> [h |-> -1, key |-> "b"]]

\* a routing that passes over a server in quarantine
_get_server_alive(s, key) ==
    LET n == Len(s.cfg.buckets)
        serverhash == IF key \in DOMAIN Pairs THEN Pairs[key].h
                      ELSE IF n > 1 THEN s.cfg.hash[key] ELSE 0
        c == s.cfg.buckets[(serverhash % n) + 1]
    IN  IF s.conn[c].dead_until > s.now
        THEN s.cfg.buckets[((serverhash + 1) % n) + 1]
        ELSE c

\* Client._get_server, client.py:267-275: the bucket at serverhash modulo the
\* number of buckets; serverhash is the first element of a tuple key, else
\* hash(key) when there is more than one bucket, else 0.  hash is any
\* function of the key (cfg.hash); _get_key: the key the command is sent with.
\* With no bucket `serverhash % len(self._buckets)` raises ZeroDivisionError:
\* the result 0 stands for it.
_get_server(s, key) ==
    LET n == Len(s.cfg.buckets)
        serverhash == IF key \in DOMAIN Pairs THEN Pairs[key].h
                      ELSE IF n > 1 THEN s.cfg.hash[key] ELSE 0
    IN  IF n = 0 THEN 0 ELSE s.cfg.buckets[(serverhash % n) + 1]
_get_key(key) == IF key \in DOMAIN Pairs THEN Pairs[key].key ELSE key

\* Client._find_server, client.py:256-265: the Connection whose str() is the
\* value, else the one the value hashes to as a key.
_find_server(s, cl, value) ==
    LET hit == {i \in 1..Len(Hosts) : __str__(s, ConnOf(cl, i)) = Address(value)}
    IN  IF hit # {}
        THEN ConnOf(cl, CHOOSE i \in hit : \A j \in hit : i <= j)
        ELSE ConnOf(cl, _get_server(s, value))

\* A call: ClientPool._invoke (client.py:184-202) when made through the pool,
\* else the method of the shared Client c.  flush_all has the server as its
\* first argument (client.py:774).
call(s, k, c, kind, parent, re) ==
    LET pooled == (c = 0)
        b  == IF pooled THEN borrow(s.pool, s.cfg.size) ELSE [pool |-> s.pool, lent |-> c]
    IN  IF b.lent = 0
        THEN LET s1 == [s EXCEPT !.cmd[k] = [NoCmd EXCEPT !.st = "end",
                                                          !.name = "done"],
                                 !.x = "pool"]
             IN  [s1 EXCEPT !.ev = Append(@, CallEv(s, s1, k, 0, kind, TRUE,
                                                    parent, "raised"))]
        ELSE CHOOSE y \in UNION
               {{[s1 EXCEPT !.ev = Append(@, [CallEv(s, s1, k, cn, kind, pooled,
                                                parent, IF pooled THEN "lent" ELSE "none")
                                              EXCEPT !.cl = b.lent, !.cn = cn])] :
                 s1 \in {LET s0 == [s EXCEPT !.pool = b.pool,
                                            !.cmd[k] = [NewCmd(b.lent, kind, pooled, re)
                                                        EXCEPT !.seen = Fired(s),
                                                               !.cn = cn]]
                         IN  IF cn = 0
                             THEN Finish(s0, k, "zerodiv", "zerodiv")
                             ELSE client_cmd(s0, k)}} :
                cn \in {IF kind.host # "none"
                        THEN _find_server(s, b.lent, kind.host)
                        ELSE IF kind.arg # "none"
                             THEN ConnOf(b.lent, _get_server(s, kind.arg))
                             ELSE b.lent}} : TRUE

\* The caller's own callback: it records the result and, when the caller is
\* re-entrant, issues the next call from inside the callback.
user(s, k, v) ==
    LET s1 == [s EXCEPT !.cmd[k].ncb = @ + 1, !.cmd[k].ures = v]
        m  == s.cmd[k]
    IN  IF m.boom THEN [s1 EXCEPT !.x = "user"]
        ELSE IF m.re /\ Unused(s1) # {}
        THEN call(s1, NextId(s1), IF m.pooled THEN 0 ELSE m.cl, Kind(m), k, FALSE)
        ELSE s1

\* on_finish that leaves the Client in _used
on_finish_keep(s, k) == s

\* ClientPool._invoke.on_finish, client.py:186-187: the Client goes back from
\* _used to _clients (deque.remove raises ValueError when it is not there)
on_finish(s, k) ==
    LET c == s.cmd[k].cl IN
    IF ~InSeq(c, s.pool.used)
    THEN [s EXCEPT !.x = "value"]
    ELSE [s EXCEPT !.pool.used = Remove(@, c), !.pool.free = Append(@, c)]

\* The caller's callback of a multi-key call is invoked with retval.
many_callback(s, k) ==
    [s EXCEPT !.fan.ncb = @ + 1,
              !.fan.ures = s.fan.retval,
              !.fan.unans = s.fan.targets
                            - Cardinality({j \in s.fan.subs :
                                              j = k \/ s.cmd[j].st = "end"})]

\* _BroadCast._invoke.on_finish(response, host, _cb), client.py:123-126
on_finish_cast(s, k, response, host) ==
    LET s1 == [s EXCEPT !.fan.retval = Put(@, host, response)] IN
    IF Cardinality(DOMAIN s1.fan.retval) = Len(Hosts)
    THEN many_callback(s1, k)
    ELSE s1

\* on_response of set_many (client.py:320-323), get_many (488-492),
\* gets_many (545-549) and delete_many (614-617), called by command k with v.
\* A broadcast hands functools.partial(on_finish, host, _cb=cb) as the callback
\* (client.py:131): called with the response, it passes the host as the first
\* positional argument of on_finish and the response as the second.
many_response(s, k, v) ==
    LET m == s.cmd[k]
        f == s.fan
    IN  IF f.name = "broadcast"
        THEN on_finish_cast([s EXCEPT !.fan.heard =
                                Put(@, k, [host |-> m.host, cn |-> m.cn, v |-> v])],
                            k, m.host, v)
        ELSE
        IF f.name \in {"get_many", "gets_many"}
        THEN LET s1 == [s EXCEPT !.fan.retval =
                           Update(@, IF v = "empty" THEN EmptyDict ELSE m.res)]
             IN  IF ~InSeq(m.cn, f.pending)
                 THEN [s1 EXCEPT !.x = "value"]
                 ELSE LET s2 == [s1 EXCEPT !.fan.pending = Remove(@, m.cn)] IN
                      IF Len(s2.fan.pending) = 0 THEN many_callback(s2, k) ELSE s2
        ELSE LET s1 == [s EXCEPT !.fan.retval = Put(@, m.key, v)] IN
             IF Cardinality(DOMAIN s1.fan.retval) = f.n
             THEN many_callback(s1, k)
             ELSE s1

\* The callback a Client method was called with: through the pool,
\* on_finish and then `_cb and _cb(response)` (client.py:188).
caller(s, k, v) ==
    LET s1 == IF s.cmd[k].pooled THEN on_finish(s, k) ELSE s IN
    IF s1.x # "none" THEN s1
    ELSE IF s.cmd[k].sub THEN many_response(s1, k, v)
    ELSE user(s1, k, v)

\* a wrapper that hands the reply on as it came
on_response_pass(m, v) == [x |-> "none", v |-> v]

\* a get that finds nothing, whatever the server sent
on_response_none(m, v) == [x |-> "none", v |-> "None"]

\* The callback the Client method hands to the Connection:
\*   get:    lambda x: callback(x.get(key, None))            client.py:472
\*   gets:   lambda x: callback(x.get(key, (None, None)))    client.py:529
\*   delete: on_response, callback(data.startswith('DELETED')) unless noreply
\*                                                            client.py:582, 596
\*   set:    the caller's callback                           client.py:299
\*   flush_all: on_response, callback(data.startswith('OK')) unless noreply
\*                                                            client.py:771, 784
\* r.x is the exception the wrapper raises itself, r.v what it passes on.
on_response(m, v) ==
    CASE IsFetch(m.name) /\ m.sub -> [x |-> "none", v |-> v]
      [] IsFetch(m.name) /\ ~m.sub ->
            [x |-> "none",
             v |-> IF m.keys = <<>>
                   THEN IF v = "empty" THEN "None" ELSE v
                   ELSE Get(IF v = "empty" THEN EmptyDict ELSE m.res, m.keys[1],
                            IF m.name = "gets" THEN <<"None", "None">> ELSE "None")]
      [] IsMisc(m.name) /\ ~m.noreply ->
            IF v = "None"
            THEN [x |-> "attr_resp", v |-> v]
            ELSE [x |-> "none",
                  v |-> IF v = (IF m.name = "flush_all" THEN "OK" ELSE "DELETED")
                        THEN "True" ELSE "False"]
      [] OTHER -> [x |-> "none", v |-> v]

\* Client.quit.on_response, client.py:795-797: server.close() before the
\* caller's callback (the state is bound once).
quit_response(s, k) ==
    CHOOSE y \in {IF x.cmd[k].name = "quit" THEN close(x, x.cmd[k].cn) ELSE x :
                     x \in {s}} : TRUE

callback(s, k, v) ==
    LET r  == on_response(s.cmd[k], v)
        s1 == quit_response(Snap([s EXCEPT !.cmd[k].ccalls = @ + 1,
                                           !.cmd[k].cres = v], k), k)
    IN  IF r.x # "none" THEN [s1 EXCEPT !.x = r.x] ELSE caller(s1, k, r.v)

\* The except clause of fetch_cmd / store_cmd / misc_cmd,
\* client.py:1005, 1081, 1111: mark_dead on IOError/OSError, then either the
\* degraded callback (ignore_exc) or re-raise.
Degraded(name) == IF IsFetch(name) THEN "empty" ELSE "None"

Except(s, k, err) ==
    LET c  == s.cmd[k].cn
        s1 == IF err = "io" THEN mark_dead(s, c) ELSE s
        s2 == [s1 EXCEPT !.x = "none"]
    IN  IF s.cfg.ignore_exc
        THEN LET s3 == callback(_clear_timeout(s2, c), k, Degraded(s.cmd[k].name))
             IN  Finish(s3, k, err, s3.x)
        ELSE Finish(Snap(s2, k), k, err, err)

\* An exception raised by a callback wrapped in command k's stack context:
\* gen.engine throws it into k's generator at its yield, if k has not finished;
\* otherwise nobody handles it (the IOLoop logs it).
Throw(s, k, err) ==
    IF k \in DOMAIN s.cmd /\ s.cmd[k].st \in Suspended
    THEN Except([s EXCEPT !.x = "none"], k, err)
    ELSE [s EXCEPT !.x = err]

\* ------------------------------------------- the generators, resumed
\* stream.read_until / read_bytes: an IOStream holds one read callback and
\* asserts that none is pending ("Already reading").
read_start(s, k, st) ==
    LET c   == s.cmd[k].cn
        err == CASE s.conn[c].stream = "none" -> "attr_write"
                 [] s.conn[c].stream = "closed" -> "io"
                 [] s.conn[c].reader # 0 -> "assert"
                 [] OTHER -> "none"
    IN  IF err # "none"
        THEN Except(s, k, err)
        ELSE [s EXCEPT !.conn[c].reader = k, !.cmd[k].st = st]

\* store_cmd, client.py:1070-1078
StoreResult(line) ==
    CASE line = "STORED" -> "True"
      [] line = "NOT_STORED" -> "False"
      [] line = "NOT_FOUND" -> "None"
      [] line = "EXISTS" -> "False"

\* A generator goes on after a yield.  plan.do says what its code does next:
\*   "read"     it reads again (st: for a line or for a payload)
\*   "callback" it calls its callback with v and returns; intry: the call is
\*              inside the try block, so what it raises reaches the except clause
\*   "raise"    it raises v inside the try block
proceed(s, k, plan) ==
    CASE plan.do = "read" -> read_start(s, k, plan.st)
      [] plan.do = "raise" -> Except(s, k, plan.v)
      [] OTHER ->
            LET s1 == callback(_clear_timeout(s, s.cmd[k].cn), k, plan.v) IN
            IF plan.intry /\ s1.x # "none"
            THEN Except(s1, k, s1.x)
            ELSE Finish(s1, k, "ok", s1.x)

Plan(do, v, st, intry) == [do |-> do, v |-> v, st |-> st, intry |-> intry]

\* The write callback: store_cmd client.py:1059-1064, misc_cmd 1102-1108,
\* fetch_cmd 977-980.  The noreply callback runs inside the try block.
written(s, k) ==
    proceed(s, k, IF ExpectsReply(s.cmd[k])
                  THEN Plan("read", "none", "rd", FALSE)
                  ELSE Plan("callback", "True", "none", TRUE))

\* A line arrives: store_cmd client.py:1064-1080, misc_cmd 1108-1121,
\* fetch_cmd 980-1004 and 1014-1015.
line_read(s, k, line) ==
    LET m   == s.cmd[k]
        err == _raise_errors(line)
        s1  == [s EXCEPT !.conn[m.cn].reader = 0, !.cmd[k].line = IF IsStore(m.name) THEN line ELSE @]
        \* store_cmd clears the timer right after _raise_errors (line 1066)
        s0  == IF IsStore(m.name) /\ err = "none" THEN _clear_timeout(s1, m.cn)
               ELSE s1
    IN  proceed(s0, k,
          CASE err # "none" -> Plan("raise", err, "none", TRUE)
            [] err = "none" /\ IsStore(m.name) ->
                  IF line \in VALID_STORE_RESULTS[m.name]
                  THEN Plan("callback", StoreResult(line), "none", TRUE)
                  ELSE Plan("raise", "unknown", "none", TRUE)
            [] err = "none" /\ IsMisc(m.name) ->
                  Plan("callback", line, "none", FALSE)
            [] OTHER ->
                  IF line = "END"
                  THEN Plan("callback", IF m.got > 0 THEN "hit" ELSE "empty",
                            "none", FALSE)
                  ELSE IF line = "VALUE"
                       THEN Plan("read", "none", "rdb", FALSE)
                       ELSE Plan("raise", "unknown", "none", TRUE))

\* The payload of a VALUE block arrives: fetch_cmd client.py:992-999, 980
bytes_read(s, k) ==
    LET c  == s.cmd[k].cn
        kv == s.conn[c].inkv
    IN  read_start([s EXCEPT !.conn[c].reader = 0,
                             !.conn[c].inkv = IF kv = <<>> THEN @ ELSE Tail(@),
                             !.cmd[k].got = @ + 1,
                             !.cmd[k].res =
                                IF kv = <<>> THEN @
                                ELSE Put(@, kv[1].key,
                                         IF s.cmd[k].name = "gets"
                                         THEN <<kv[1].val, kv[1].cas>>
                                         ELSE kv[1].val)],
                   k, "rd")

\* _add_timeout.on_timeout and connect.on_timeout, client.py:867, 894
on_timeout(s, c) ==
    LET k  == s.conn[c].timeout.owner
        s1 == mark_dead([s EXCEPT !.conn[c].timeout = NoTimer], c)
    IN  Throw(s1, k, "timeout")

\* connect.on_connect, client.py:909: the loop stops at a callback that raises.
RECURSIVE ResumeAll(_, _, _)
ResumeAll(s, cbs, i) ==
    IF i > Len(cbs) \/ s.x # "none"
    THEN s
    ELSE ResumeAll(IF s.cmd[cbs[i]].st = "conn" THEN send_request(s, cbs[i]) ELSE s,
                   cbs, i + 1)

on_connect(s, c) ==
    LET s1 == ResumeAll(_clear_timeout(s, c), s.conn[c].ccb, 1) IN
    IF s1.x # "none"
    THEN s1
    ELSE [s1 EXCEPT !.conn[c].ccbNone = TRUE, !.conn[c].ccb = <<>>]

\* The stream is closed from outside (handshake refused, end of file, reset):
\* IOStream drops its callbacks and runs the close callback in the context of
\* the command that made the stream.
stream_closed(s, c, error) ==
    LET s1 == on_close(DropCallbacks(s, c), c, error) IN
    IF s1.x # "none" THEN Throw(s1, s.conn[c].opener, s1.x) ELSE s1

\* IOStream runs the callbacks it was given (connect, write, read) through
\* _run_callback: an exception that leaves one closes the stream.
run_callback(s, c) == IF s.x # "none" THEN close(s, c) ELSE s

\* What memcached answers to the request of a command (error lines included).
Replies(name) ==
    {<<e>> : e \in ErrorLines} \cup
    CASE IsStore(name) -> {<<l>> : l \in VALID_STORE_RESULTS[name]}
      [] IsFetch(name) -> {<<"END">>, <<"VALUE", "DATA", "END">>}
      [] OTHER -> {<<"DELETED">>, <<"NOT_FOUND">>}

\* Every reply line of the store commands, whatever the command: what a peer
\* that does not keep to the protocol of the command may send.
StoreLines == {<<l>> : l \in UNION {VALID_STORE_RESULTS[n] : n \in DOMAIN VALID_STORE_RESULTS}}

\* memcached serves one request r on store m: the new store and the reply.
\* kv lists the key, value and cas unique of the VALUE blocks of the reply.
RECURSIVE Found(_, _, _)
Found(m, keys, i) ==
    IF i > Len(keys) THEN <<>>
    ELSE (IF keys[i] \in DOMAIN m.d
          THEN <<[key |-> keys[i], val |-> m.d[keys[i]].v, cas |-> m.d[keys[i]].cas]>>
          ELSE <<>>) \o Found(m, keys, i + 1)

RECURSIVE ValueLines(_)
ValueLines(n) == IF n = 0 THEN <<"END">> ELSE <<"VALUE", "DATA">> \o ValueLines(n - 1)

Serve(m, r) ==
    CASE r.name = "set" ->
            [m |-> [d |-> Put(m.d, r.key, [v |-> r.val, cas |-> m.n + 1]), n |-> m.n + 1],
             lines |-> <<"STORED">>, kv |-> <<>>]
      [] r.name = "delete" ->
            [m |-> [m EXCEPT !.d = Del(@, r.key)],
             lines |-> IF r.key \in DOMAIN m.d THEN <<"DELETED">> ELSE <<"NOT_FOUND">>,
             kv |-> <<>>]
      [] r.name = "flush_all" ->
            [m |-> [m EXCEPT !.d = EmptyDict], lines |-> <<"OK">>, kv |-> <<>>]
      [] r.name = "cas" ->
            IF r.key \notin DOMAIN m.d
            THEN [m |-> m, lines |-> <<"NOT_FOUND">>, kv |-> <<>>]
            ELSE IF m.d[r.key].cas # r.tok
            THEN [m |-> m, lines |-> <<"EXISTS">>, kv |-> <<>>]
            ELSE [m |-> [d |-> Put(m.d, r.key, [v |-> r.val, cas |-> m.n + 1]),
                         n |-> m.n + 1],
                  lines |-> <<"STORED">>, kv |-> <<>>]
      [] r.name = "quit" ->
            [m |-> m, lines |-> <<>>, kv |-> <<>>]
      [] OTHER ->
            LET kv == Found(m, r.keys, 1) IN
            [m |-> m, lines |-> ValueLines(Len(kv)), kv |-> kv]

\* ----------------------------------------------------------------- actions
\* the server of Connection c takes the oldest request sent to it; its reply
\* reaches the client when the socket it came on is still the open one
ServerStep(c) ==
    /\ cfg.server = "store"
    /\ conn[c].wire # <<>>
    /\ LET r == Head(conn[c].wire)
           a == Serve(srv[conn[c].sv], r)
           heard == r.reply /\ r.sock = conn[c].socks /\ conn[c].stream = "open"
       IN  /\ srv' = [srv EXCEPT ![conn[c].sv] = a.m]
           /\ conn' = [conn EXCEPT ![c].wire = Tail(@),
                                   ![c].inb = IF heard THEN @ \o a.lines ELSE @,
                                   ![c].inkv = IF heard THEN @ \o a.kv ELSE @]
           /\ ev' = <<>>
           /\ UNCHANGED <<now, cfg, pool, cmd, fan>>


\* Time passes.  The code compares the clock only with deadlines it set from
\* the clock, so the clock is let run only while some deadline is ahead.
Tick ==
    /\ now < MaxTime
    /\ \E c \in DOMAIN conn : \/ conn[c].timeout.armed /\ now < conn[c].timeout.due
                          \/ conn[c].dead_until >= now
    /\ now' = now + 1
    /\ ev' = <<>>
    /\ UNCHANGED <<cfg, pool, conn, cmd, srv, fan>>

\* the commands of Connection c whose generator waits at a yield
SuspendedOn(s, c) == {k \in DOMAIN s.cmd : s.cmd[k].cn = c /\ s.cmd[k].st \in Suspended}

\* the IOLoop runs a due timeout
TimerFires(c) ==
    /\ conn[c].timeout.armed
    /\ now >= conn[c].timeout.due
    /\ LET s == on_timeout(State, c) IN
       Commit([s EXCEPT !.ev = Append(@, [NoEv EXCEPT !.t = "timer", !.cl = c,
                  !.before = Cardinality(SuspendedOn(State, c)),
                  !.pending = Cardinality(SuspendedOn(s, c))])])

\* the TCP handshake succeeds
ConnectOK(c) ==
    /\ conn[c].stream = "connecting"
    /\ Commit(run_callback(on_connect([State EXCEPT !.conn[c].stream = "open"], c), c))

\* the TCP handshake fails: the stream closes with its error set
ConnectFail(c) ==
    /\ conn[c].stream = "connecting"
    /\ Commit(stream_closed(State, c, TRUE))

\* the peer closes the connection (end of file)
PeerClose(c) ==
    /\ conn[c].stream = "open"
    /\ Commit(stream_closed(State, c, FALSE))

\* the connection breaks (reset): the stream closes with its error set
PeerReset(c) ==
    /\ conn[c].stream = "open"
    /\ Commit(stream_closed(State, c, TRUE))

\* a write is flushed
WriteFlushed(k) ==
    /\ cmd[k].st = "wr"
    /\ conn[cmd[k].cn].stream = "open"
    /\ Commit(run_callback(written(State, k), cmd[k].cn))

\* read_until finds a line: the rest of a reply already received, or the
\* reply memcached gives to the oldest request not yet answered
ReadLine(k) ==
    LET c == cmd[k].cn IN
    /\ cmd[k].st = "rd"
    /\ conn[c].reader = k
    /\ conn[c].stream = "open"
    /\ conn[c].inb # <<>> \/ conn[c].out # <<>>
    /\ \E r \in IF conn[c].inb # <<>> THEN {conn[c].inb}
                 ELSE IF cfg.server = "loose" THEN StoreLines
                 ELSE Replies(Head(conn[c].out)) :
          Commit(run_callback(
                   line_read([State EXCEPT
                                 !.conn[c].out = IF conn[c].inb # <<>> THEN @ ELSE Tail(@),
                                 !.conn[c].inb = Tail(r)],
                             k, Head(r)),
                   c))

\* read_bytes has its bytes
ReadBytes(k) ==
    LET c == cmd[k].cn IN
    /\ cmd[k].st = "rdb"
    /\ conn[c].reader = k
    /\ conn[c].stream = "open"
    /\ conn[c].inb # <<>>
    /\ Commit(run_callback(bytes_read([State EXCEPT !.conn[c].inb = Tail(@)], k), c))

\* a caller makes a call through the pool
PoolCall ==
    /\ Unused(State) # {}
    /\ \E kind \in CallKinds, re \in BOOLEAN :
          Commit(call(State, NextId(State), 0, kind, 0, re))

\* a caller makes a call on the shared Client
DirectCall ==
    /\ Unused(State) # {}
    /\ \E kind \in CallKinds :
          Commit(call(State, NextId(State), 1, kind, 0, FALSE))

Events ==
    \/ Tick
    \/ \E c \in DOMAIN conn : TimerFires(c)
    \/ \E c \in DOMAIN conn : ConnectOK(c)
    \/ \E c \in DOMAIN conn : ConnectFail(c)
    \/ \E c \in DOMAIN conn : PeerClose(c)
    \/ \E c \in DOMAIN conn : PeerReset(c)
    \/ \E k \in DOMAIN cmd : WriteFlushed(k)
    \/ \E k \in DOMAIN cmd : ReadLine(k)
    \/ \E k \in DOMAIN cmd : ReadBytes(k)

InitCommon ==
    /\ now = 1
    /\ conn = [c \in Clients |-> NewConnection]
    /\ cmd = [k \in CmdIds |-> NoCmd]
    /\ ev = <<>>
    /\ srv = <<NewServer>>
    /\ fan = NoFan

\* A ClientPool, all calls made through it (ClientPool.__init__, client.py:135).
Init ==
    /\ InitCommon
    /\ cfg \in [size : PoolSizes, ignore_exc : BOOLEAN, mode : {"pool"},
                server : {"any"}]
    /\ pool = [free |-> <<>>, used |-> <<>>, ncl |-> 0]

Next == PoolCall \/ Events

Spec == Init /\ [][Next]_vars

\* One Client used directly by several callers (Client.__init__, client.py:220).
InitConn ==
    /\ InitCommon
    /\ cfg \in [size : {0}, ignore_exc : BOOLEAN, mode : {"direct"},
                server : {"any"}]
    /\ pool = [free |-> <<>>, used |-> <<>>, ncl |-> 1]

NextConn == DirectCall \/ Events

SpecConn == InitConn /\ [][NextConn]_vars

\* One Client on which the store commands are called, with and without
\* noreply (Client.set / add / replace / append / prepend / cas,
\* client.py:277-455); the peer answers with any of the store reply lines.
StoreKinds ==
    {[NoKind EXCEPT !.name = n, !.noreply = r] :
        n \in DOMAIN VALID_STORE_RESULTS, r \in BOOLEAN}

StoreCall ==
    /\ Unused(State) # {}
    /\ \E kind \in StoreKinds :
          Commit(call(State, NextId(State), 1, kind, 0, FALSE))

InitStore ==
    /\ InitCommon
    /\ cfg \in [size : {0}, ignore_exc : BOOLEAN, mode : {"direct"},
                server : {"loose"}]
    /\ pool = [free |-> <<>>, used |-> <<>>, ncl |-> 1]

NextStore ==
    \/ StoreCall
    \/ Tick
    \/ \E c \in DOMAIN conn : TimerFires(c)
    \/ \E c \in DOMAIN conn : ConnectOK(c)
    \/ \E c \in DOMAIN conn : ConnectFail(c)
    \/ \E c \in DOMAIN conn : PeerReset(c)
    \/ \E k \in DOMAIN cmd : WriteFlushed(k)
    \/ \E k \in DOMAIN cmd : ReadLine(k)

SpecStore == InitStore /\ [][NextStore]_vars

\* ------------------------------------------------------- multi-key calls
\* The calls of a loop of a multi-key call, in turn; the loop ends when one
\* of them raises.
RECURSIVE IssueAll(_, _, _)
IssueAll(s, kinds, i) ==
    IF i > Len(kinds) \/ s.x # "none"
    THEN [s EXCEPT !.fan.exc = s.x]
    ELSE LET k == NextId(s) IN
         IssueAll(call([s EXCEPT !.fan.subs = @ \cup {k}], k, kinds[i].cn,
                       kinds[i].kind, 0, FALSE),
                  kinds, i + 1)

\* `if not keys: callback({})` (client.py:326, 495, 552, 619): no return follows
shortcut(s, empty) ==
    IF empty THEN [s EXCEPT !.fan.ncb = @ + 1, !.fan.ures = EmptyDict] ELSE s

\* the first loop of a multi-key call (client.py:329-332, 498-502, 621-624)
\* calls _get_server for its first key: ZeroDivisionError with no bucket
NoBucket(s) == [s EXCEPT !.x = "zerodiv", !.fan.exc = "zerodiv"]

\* every server is asked for every key
KeysOn_all(s, keys, c) == keys

\* the keys of a list that go to server c, in the order of the list
KeysOn(s, keys, c) == SelectSeq(keys, LAMBDA key : _get_server(s, key) = c)

\* Client.get_many / gets_many, client.py:475-512, 532-569.  ord: the order
\* in which the dict servers gives its keys (pending and the loop).
get_many(s, name, keys, ord) ==
    LET s1 == shortcut([s EXCEPT !.fan = [NoFan EXCEPT !.name = name,
                                                      !.keys = keys,
                                                      !.pending = ord,
                                                      !.targets = Len(ord)]],
                       keys = <<>>)
    IN  IF keys # <<>> /\ s.cfg.buckets = <<>>
        THEN NoBucket(s1)
        ELSE
        IssueAll(s1,
                 [i \in 1..Len(ord) |->
                     [cn |-> ord[i],
                      kind |-> [NoKind EXCEPT
                                  !.name = IF name = "get_many" THEN "get" ELSE "gets",
                                  !.keys = KeysOn(s, keys, ord[i]),
                                  !.sub = TRUE]]],
                 1)

\* Client.set_many, client.py:301-340.  ord: the order in which the dict
\* servers gives the keys; last: the key the first loop ended with, whose
\* value the variable `value` still holds in the second loop.
set_many(s, values, noreply, ord, last) ==
    LET s1 == shortcut([s EXCEPT !.fan = [NoFan EXCEPT !.name = "set_many",
                                                      !.values = values,
                                                      !.noreply = noreply,
                                                      !.n = Cardinality(DOMAIN values),
                                                      !.targets = Len(ord)]],
                       values = EmptyDict)
    IN  IF values # EmptyDict /\ s.cfg.buckets = <<>>
        THEN NoBucket(s1)
        ELSE
        IssueAll(s1,
                 [i \in 1..Len(ord) |->
                     [cn |-> _get_server(s, ord[i]),
                      kind |-> [NoKind EXCEPT !.name = "set",
                                             !.key = ord[i],
                                             !.val = values[last],
                                             !.noreply = noreply,
                                             !.sub = TRUE]]],
                 1)

\* Client.delete_many, client.py:599-632: self.delete(key, noreply, callback=cb)
\* gives noreply as the argument time of delete (571), whose own noreply is
\* left at its default, True.
delete_many(s, keys, noreply, ord) ==
    LET s1 == shortcut([s EXCEPT !.fan = [NoFan EXCEPT !.name = "delete_many",
                                                      !.keys = keys,
                                                      !.noreply = noreply,
                                                      !.n = Len(keys),
                                                      !.targets = Len(ord)]],
                       keys = <<>>)
    IN  IF keys # <<>> /\ s.cfg.buckets = <<>>
        THEN NoBucket(s1)
        ELSE
        IssueAll(s1,
                 [i \in 1..Len(ord) |->
                     [cn |-> _get_server(s, ord[i]),
                      kind |-> [NoKind EXCEPT !.name = "delete",
                                             !.key = ord[i],
                                             !.val = IF noreply THEN "True" ELSE "none",
                                             !.noreply = TRUE,
                                             !.sub = TRUE]]],
                 1)

RECURSIVE Sum(_, _)
Sum(f, S) == IF S = {} THEN 0
             ELSE LET x == CHOOSE y \in S : TRUE IN f[x] + Sum(f, S \ {x})

\* The record of a multi-key call: b is the state before it, s the state
\* when it has returned or raised.
ManyEv(b, s) ==
    [s EXCEPT !.ev = Append(@, [NoEv EXCEPT
        !.t = "many", !.name = s.fan.name, !.keys = s.fan.keys, !.exc = s.fan.exc,
        !.socks0 = Sum([c \in DOMAIN b.conn |-> b.conn[c].socks], DOMAIN b.conn),
        !.socks1 = Sum([c \in DOMAIN s.conn |-> s.conn[c].socks], DOMAIN s.conn),
        !.wr0 = Sum([c \in DOMAIN b.conn |-> Len(b.conn[c].wire)], DOMAIN b.conn),
        !.wr1 = Sum([c \in DOMAIN s.conn |-> Len(s.conn[c].wire)], DOMAIN s.conn)])]

\* the elements of a list
Range(q) == {q[i] : i \in 1..Len(q)}
\* the orders in which a dict with the keys S can give them
Orders(S) == {q \in UNION {[1..n -> S] : n \in {Cardinality(S)}} : Range(q) = S}

\* A ClientPool over one memcached server that holds a store; the network is
\* sound (connections open, nothing is lost or late), so that nothing raises
\* and ignore_exc, left at the default of Client.__init__, plays no part.
Keys == {"a", "b"}
Values == {"v1", "v2"}

KVKinds ==
    {[NoKind EXCEPT !.name = "set", !.key = k, !.val = v, !.noreply = n] :
        k \in Keys, v \in Values, n \in BOOLEAN}
    \cup {[NoKind EXCEPT !.name = "get", !.keys = <<k>>] : k \in Keys}

KVCall ==
    /\ Unused(State) # {}
    /\ \E kind \in KVKinds : Commit(call(State, NextId(State), 0, kind, 0, FALSE))

\* test_get_found (test_client.py:66-70): a caller sets a key through the
\* pool and asks for it at once, in the same turn of the IOLoop
SetThenGet ==
    /\ Cardinality(Unused(State)) >= 2
    /\ \E k \in Keys, v \in Values :
          Commit(CHOOSE y \in
                   {call(x, NextId(x), 0,
                         [NoKind EXCEPT !.name = "get", !.keys = <<k>>,
                                        !.after = NextId(State)],
                         0, FALSE) :
                    x \in {call(State, NextId(State), 0,
                                [NoKind EXCEPT !.name = "set", !.key = k, !.val = v],
                                0, FALSE)}} : TRUE)

InitKV ==
    /\ now = 1
    /\ conn = [c \in 1..MaxKV |-> NewConnection]
    /\ cmd = [k \in 1..MaxKV |-> NoCmd]
    /\ ev = <<>>
    /\ srv = <<NewServer>>
    /\ fan = NoFan
    /\ cfg \in [size : {0}, ignore_exc : {TRUE}, mode : {"pool"}, server : {"store"}]
    /\ pool = [free |-> <<>>, used |-> <<>>, ncl |-> 0]

NextKV ==
    \/ KVCall
    \/ SetThenGet
    \/ \E c \in DOMAIN conn : ConnectOK(c)
    \/ \E c \in DOMAIN conn : ServerStep(c)
    \/ \E k \in DOMAIN cmd : WriteFlushed(k)
    \/ \E k \in DOMAIN cmd : ReadLine(k)
    \/ \E k \in DOMAIN cmd : ReadBytes(k)

SpecKV == InitKV /\ [][NextKV]_vars

\* One Client over two memcached servers, each with a store; single-key and
\* multi-key calls are made on it, one after the other (a call is made when
\* no earlier command is still at work), and the network may fail.
Servers == {1, 2}
AllKeys == Keys \cup Spaced \cup NonAscii

\* no command is waiting for the network
Idle == \A k \in DOMAIN cmd : cmd[k].st \notin {"conn", "wr", "rd", "rdb"}

\* the hash functions drawn (the two servers are alike, so "a" goes to 1)
Hashes == {r \in [AllKeys -> {0, 1}] : r["a"] = 0 /\ r["uni"] = 0}

ManyKinds ==
    {[NoKind EXCEPT !.name = "get", !.keys = <<k>>] : k \in {"a", "b c", "uni"}}
    \cup {[NoKind EXCEPT !.name = "gets", !.keys = <<"b">>]}
    \cup {[NoKind EXCEPT !.name = "set", !.key = "b c", !.val = "v1"],
          [NoKind EXCEPT !.name = "set", !.key = "a", !.val = "uni"]}

\* Client.get / gets / set on the Client (client.py:294-299, 467-473, 524-530)
ManyCall ==
    /\ Unused(State) # {}
    /\ Idle
    /\ fan.name = "none"
    /\ \E kind \in ManyKinds :
          Commit(call(State, NextId(State),
                      _get_server(State, IF IsFetch(kind.name) THEN kind.keys[1]
                                         ELSE kind.key),
                      kind, 0, FALSE))

KeyLists == {<<>>, <<"a">>, <<"a", "b">>, <<"a", "b c">>}
ValueDicts == {EmptyDict, [k \in {"a"} |-> "v1"],
               [k \in {"a", "b"} |-> IF k = "a" THEN "v1" ELSE "v2"]}

\* Client.get_many / gets_many is called
GetManyCall ==
    /\ fan.name = "none"
    /\ Idle
    /\ \E name \in {"get_many", "gets_many"}, keys \in KeyLists :
          \E ord \in Orders({_get_server(State, k) : k \in Range(keys)}) :
             /\ Cardinality(Unused(State)) >= Len(ord)
             /\ Commit(ManyEv(State, get_many(State, name, keys, ord)))

\* Client.set_many is called
SetManyCall ==
    /\ fan.name = "none"
    /\ Idle
    /\ \E values \in ValueDicts, noreply \in BOOLEAN :
          \E ord \in Orders(DOMAIN values), last \in DOMAIN values \cup {"none"} :
             /\ (last = "none") = (values = EmptyDict)
             /\ Cardinality(Unused(State)) >= Len(ord)
             /\ Commit(ManyEv(State, set_many(State, values, noreply, ord, last)))

\* Client.delete_many is called
DeleteManyCall ==
    /\ fan.name = "none"
    /\ Idle
    /\ \E keys \in KeyLists, noreply \in BOOLEAN :
          \E ord \in Orders(Range(keys)) :
             /\ Cardinality(Unused(State)) >= Len(ord)
             /\ Commit(ManyEv(State, delete_many(State, keys, noreply, ord)))

\* what the servers hold at the start: any of the keys, each at the server
\* the Client routes it to
Stored(route, S) ==
    [i \in Servers |->
        [d |-> [k \in {x \in S : route[x] = i} |-> [v |-> "v0", cas |-> 1]],
         n |-> 1]]

InitMany ==
    /\ now = 1
    /\ conn = [c \in Servers |-> [NewConnection EXCEPT !.sv = c]]
    /\ cmd = [k \in 1..MaxKV |-> NoCmd]
    /\ ev = <<>>
    /\ fan = NoFan
    /\ cfg \in [size : {0}, ignore_exc : BOOLEAN, mode : {"direct"},
                server : {"store"}, hash : Hashes, buckets : {Buckets(<<1, 1>>, 1)}]
    /\ \E S \in SUBSET Keys :
          srv = Stored([k \in AllKeys |-> _get_server([cfg |-> cfg], k)], S)
    /\ pool = [free |-> <<>>, used |-> <<>>, ncl |-> 1]

NextMany ==
    \/ ManyCall
    \/ GetManyCall
    \/ \E c \in DOMAIN conn : ServerStep(c)
    \/ \E c \in DOMAIN conn : ConnectOK(c)
    \/ \E c \in DOMAIN conn : ConnectFail(c)
    \/ \E c \in DOMAIN conn : PeerClose(c)
    \/ \E c \in DOMAIN conn : PeerReset(c)
    \/ \E k \in DOMAIN cmd : WriteFlushed(k)
    \/ \E k \in DOMAIN cmd : ReadLine(k)
    \/ \E k \in DOMAIN cmd : ReadBytes(k)

SpecMany == InitMany /\ [][NextMany]_vars

\* The same Client on a sound network: a set_many or a delete_many, and
\* when it has completed a get of one of the keys.
GetAfter ==
    /\ Unused(State) # {}
    /\ Idle
    /\ fan.ncb >= 1
    /\ \E k \in Keys :
          Commit(call(State, NextId(State), _get_server(State, k),
                      [NoKind EXCEPT !.name = "get", !.keys = <<k>>], 0, FALSE))

NextWrite ==
    \/ SetManyCall
    \/ DeleteManyCall
    \/ GetAfter
    \/ \E c \in DOMAIN conn : ServerStep(c)
    \/ \E c \in DOMAIN conn : ConnectOK(c)
    \/ \E k \in DOMAIN cmd : WriteFlushed(k)
    \/ \E k \in DOMAIN cmd : ReadLine(k)
    \/ \E k \in DOMAIN cmd : ReadBytes(k)

SpecWrite == InitMany /\ [][NextWrite]_vars

\* A ClientPool over the two servers; flush_all is broadcast to them, one
\* broadcast after the other, and a server may refuse the connection.
\* _BroadCast._invoke, client.py:122-133: for every host of pool._servers the
\* command is called through the pool with the host as its first argument.
broadcast(s, name, noreply) ==
    IssueAll([s EXCEPT !.fan = [NoFan EXCEPT !.name = "broadcast",
                                            !.noreply = noreply,
                                            !.n = Len(Hosts),
                                            !.targets = Len(Hosts)]],
             [i \in 1..Len(Hosts) |->
                 [cn |-> 0,
                  kind |-> [NoKind EXCEPT !.name = name,
                                         !.noreply = noreply,
                                         !.host = Hosts[i],
                                         !.sub = TRUE]]],
             1)

\* pool.broadcast.flush_all(noreply=..., callback=...) is called
BroadcastCall ==
    /\ Idle
    /\ Cardinality(Unused(State)) >= Len(Hosts)
    /\ \E noreply \in BOOLEAN :
          Commit(ManyEv(State, broadcast(State, "flush_all", noreply)))

InitCast ==
    /\ now = 1
    /\ conn = [c \in 1..(Rounds * Len(Hosts) * Len(Hosts)) |->
                 [NewConnection EXCEPT !.sv = ((c - 1) % Len(Hosts)) + 1]]
    /\ cmd = [k \in 1..(Rounds * Len(Hosts)) |-> NoCmd]
    /\ ev = <<>>
    /\ fan = NoFan
    /\ cfg \in [size : {0}, ignore_exc : BOOLEAN, mode : {"pool"},
                server : {"store"}, hash : [Range(Hosts) -> {0, 1}],
                buckets : {Buckets(<<1, 1>>, 1)}]
    /\ srv = [i \in 1..Len(Hosts) |->
                [d |-> [k \in {"a"} |-> [v |-> "v0", cas |-> 1]], n |-> 1]]
    /\ pool = [free |-> <<>>, used |-> <<>>, ncl |-> 0]

NextCast ==
    \/ BroadcastCall
    \/ \E c \in DOMAIN conn : ServerStep(c)
    \/ \E c \in DOMAIN conn : ConnectOK(c)
    \/ \E c \in DOMAIN conn : ConnectFail(c)
    \/ \E k \in DOMAIN cmd : WriteFlushed(k)
    \/ \E k \in DOMAIN cmd : ReadLine(k)

SpecCast == InitCast /\ [][NextCast]_vars

\* One Client on one server that holds a store, on a sound network: gets,
\* cas, set and delete of one key are called one after the other
\* (Client.gets client.py:514, cas 433, set 277, delete 571).
Tokens == 1..3
CasKinds ==
    {[NoKind EXCEPT !.name = "gets", !.keys = <<"a">>],
     [NoKind EXCEPT !.name = "set", !.key = "a", !.val = "v2"]}
    \cup {[NoKind EXCEPT !.name = "cas", !.key = "a", !.val = "v1", !.tok = t] :
             t \in Tokens}
    \cup {[NoKind EXCEPT !.name = "delete", !.key = k, !.noreply = r] :
             k \in {"a"} \cup Spaced, r \in BOOLEAN}
    \cup {[NoKind EXCEPT !.name = "get", !.keys = <<k>>] : k \in Spaced \cup Newlined}

CasCall ==
    /\ Unused(State) # {}
    /\ Idle
    /\ \E kind \in CasKinds : Commit(call(State, NextId(State), 1, kind, 0, FALSE))

InitCas ==
    /\ now = 1
    /\ conn = [c \in {1} |-> NewConnection]
    /\ cmd = [k \in 1..MaxKV |-> NoCmd]
    /\ ev = <<>>
    /\ fan = NoFan
    /\ cfg \in [size : {0}, ignore_exc : BOOLEAN, mode : {"direct"},
                server : {"store"}]
    /\ srv \in {<<NewServer>>,
                <<[d |-> [k \in {"a"} |-> [v |-> "v0", cas |-> 1]], n |-> 1]>>}
    /\ pool = [free |-> <<>>, used |-> <<>>, ncl |-> 1]

NextCas ==
    \/ CasCall
    \/ \E c \in DOMAIN conn : ServerStep(c)
    \/ \E c \in DOMAIN conn : ConnectOK(c)
    \/ \E k \in DOMAIN cmd : WriteFlushed(k)
    \/ \E k \in DOMAIN cmd : ReadLine(k)
    \/ \E k \in DOMAIN cmd : ReadBytes(k)

SpecCas == InitCas /\ [][NextCas]_vars

\* ---------------------------------------------------------------------------
\* One Client over two weighted servers: commands routed by key, by an
\* explicit (hash, key) pair, and by server address.
\* ---------------------------------------------------------------------------
Weights == {<<1, 3>>, <<2, 1>>, <<1, 0>>}

RouteArgs == {"a", "b"} \cup DOMAIN Pairs

KeyKinds ==
    {[NoKind EXCEPT !.name = "get", !.keys = <<_get_key(a)>>, !.arg = a] :
        a \in RouteArgs}

AddrKinds ==
    {[NoKind EXCEPT !.name = "flush_all", !.noreply = r, !.host = h] :
        r \in BOOLEAN, h \in Range(Hosts)}
    \cup {[NoKind EXCEPT !.name = "quit", !.noreply = TRUE, !.host = h] :
             h \in Range(Hosts)}

\* get with a key or a (hash, key) pair
KeyCall ==
    /\ Unused(State) # {}
    /\ Idle
    /\ \E kind \in KeyKinds : Commit(call(State, NextId(State), 1, kind, 0, FALSE))

\* flush_all / quit with the address of a server
AddrCall ==
    /\ Unused(State) # {}
    /\ Idle
    /\ \E kind \in AddrKinds : Commit(call(State, NextId(State), 1, kind, 0, FALSE))

InitRoute ==
    /\ now = 1
    /\ conn = [c \in 1..Len(Hosts) |-> [NewConnection EXCEPT !.sv = c]]
    /\ cmd = [k \in 1..MaxCmds |-> NoCmd]
    /\ ev = <<>>
    /\ fan = NoFan
    /\ cfg \in {[c EXCEPT !.buckets = Buckets(c.weights, 1)] :
                  c \in [size : {0}, ignore_exc : BOOLEAN, mode : {"direct"},
                         server : {"store"}, weights : Weights,
                         hash : {h \in [{"a", "b"} \cup Range(Hosts) -> {0, 3}] :
                                    h["a"] = 0 /\ h["h1"] = 3},
                         buckets : {<<>>}]}
    /\ srv = [i \in 1..Len(Hosts) |->
                [d |-> [k \in {"a"} |-> [v |-> "v0", cas |-> 1]], n |-> 1]]
    /\ pool = [free |-> <<>>, used |-> <<>>, ncl |-> 1]

NextRoute ==
    \/ KeyCall
    \/ AddrCall
    \/ Tick
    \/ \E c \in DOMAIN conn : TimerFires(c)
    \/ \E c \in DOMAIN conn : ServerStep(c)
    \/ \E c \in DOMAIN conn : ConnectOK(c)
    \/ \E c \in DOMAIN conn : ConnectFail(c)
    \/ \E k \in DOMAIN cmd : WriteFlushed(k)
    \/ \E k \in DOMAIN cmd : ReadLine(k)
    \/ \E k \in DOMAIN cmd : ReadBytes(k)

SpecRoute == InitRoute /\ [][NextRoute]_vars

\* ---------------------------------------------------------------------------
\* One Client whose Connection is also marked dead from outside: mark_dead is
\* a public method of Connection.
\* ---------------------------------------------------------------------------
MarkDead(c) == Commit(mark_dead(State, c))

NextDead ==
    \/ DirectCall
    \/ \E c \in DOMAIN conn : MarkDead(c)
    \/ Events

SpecDead == InitConn /\ [][NextDead]_vars

\* ---------------------------------------------------------------------------
\* A Client built from an empty server list: no Connection, no bucket.
\* ---------------------------------------------------------------------------
\* Client.get / gets / set / delete is called with a key or a (hash, key) pair
EmptyCall ==
    /\ Unused(State) # {}
    /\ \E name \in {"get", "gets", "set", "delete"}, a \in RouteArgs :
          Commit(call(State, NextId(State), 1,
                      [NoKind EXCEPT !.name = name, !.arg = a,
                                     !.key = IF IsFetch(name) THEN "none" ELSE _get_key(a),
                                     !.keys = IF IsFetch(name) THEN <<_get_key(a)>> ELSE <<>>,
                                     !.val = IF name = "set" THEN "v1" ELSE "none"],
                      0, FALSE))

InitEmpty ==
    /\ now = 1
    /\ conn = <<>>
    /\ cmd = [k \in 1..MaxCmds |-> NoCmd]
    /\ ev = <<>>
    /\ fan = NoFan
    /\ cfg \in [size : {0}, ignore_exc : BOOLEAN, mode : {"direct"},
                server : {"store"}, hash : [AllKeys -> {0}],
                buckets : {Buckets(<<>>, 1)}]
    /\ srv = <<>>
    /\ pool = [free |-> <<>>, used |-> <<>>, ncl |-> 1]

NextEmpty ==
    \/ EmptyCall
    \/ GetManyCall
    \/ SetManyCall
    \/ DeleteManyCall

SpecEmpty == InitEmpty /\ [][NextEmpty]_vars

\* ---------------------------------------------------------------------------
\* The reply of a fetch command, byte by byte: the parsing loop of fetch_cmd
\* over what one memcached server sends for a get or a gets.  A byte string is
\* a sequence of characters.  In this specification fan holds the locals of
\* the fetch_cmd generator, srv the VALUE blocks the server answers with and
\* the bytes of them still on their way, conn[1].inb the read buffer of the
\* stream, and cfg the arguments of fetch_cmd.
\* ---------------------------------------------------------------------------
Digits == <<"0", "1", "2", "3", "4", "5", "6", "7", "8", "9">>
CRLF == <<"\r", "\n">>

\* IOStream.read_until("\r\n") on the buffer buf, client.py:979: the bytes up
\* to and with the first delimiter, or nothing while there is none
read_until(buf) ==
    LET S == {i \in 1..(Len(buf) - 1) : buf[i] = "\r" /\ buf[i + 1] = "\n"}
    IN  IF S = {} THEN [data |-> <<>>, rest |-> buf]
        ELSE LET i == CHOOSE i \in S : \A j \in S : i <= j
             IN  [data |-> SubSeq(buf, 1, i + 1), rest |-> SubSeq(buf, i + 2, Len(buf))]

\* a read_bytes that reads the payload as a line, up to the first delimiter
read_bytes_line(buf, n) == read_until(buf)

\* IOStream.read_bytes(n), client.py:992: the next n bytes, or nothing while
\* fewer have arrived
read_bytes(buf, n) ==
    IF Len(buf) < n THEN [data |-> <<>>, rest |-> buf]
    ELSE [data |-> SubSeq(buf, 1, n), rest |-> SubSeq(buf, n + 1, Len(buf))]

\* str.split() of line.split(), client.py:987-989: the runs of characters
\* that are not whitespace
RECURSIVE split(_)
split(q) ==
    LET W == {i \in 1..Len(q) : q[i] \in {" ", "\t", "\r", "\n"}}
        n == IF W = {} THEN Len(q) ELSE (CHOOSE i \in W : \A j \in W : i <= j) - 1
    IN  IF q = <<>> THEN <<>>
        ELSE IF n = 0 THEN split(Tail(q))
        ELSE <<SubSeq(q, 1, n)>> \o split(SubSeq(q, n + 1, Len(q)))

\* int(size), client.py:992, of a string of decimal digits
RECURSIVE int(_)
int(q) ==
    IF q = <<>> THEN 0
    ELSE int(SubSeq(q, 1, Len(q) - 1)) * 10
         + ((CHOOSE d \in 1..10 : Digits[d] = q[Len(q)]) - 1)

\* What memcached sends for the items blocks, with the cas unique of each for
\* a gets: "VALUE <key> <flags> <bytes>[ <cas>]\r\n<data>\r\n" each, then END.
RECURSIVE Reply(_, _)
Reply(blocks, with_cas) ==
    IF blocks = <<>> THEN <<"E", "N", "D">> \o CRLF
    ELSE LET b == blocks[1]
             n == Len(b.data)
         IN  <<"V", "A", "L", "U", "E", " ">> \o b.key \o <<" ", "0", " ">>
             \o (IF n >= 10 THEN <<Digits[(n \div 10) + 1]>> ELSE <<>>)
             \o <<Digits[(n % 10) + 1]>>
             \o (IF with_cas THEN <<" ">> \o b.cas ELSE <<>>)
             \o CRLF \o b.data \o CRLF
             \o Reply(Tail(blocks), with_cas)

\* the values stored: plain, empty, and values that hold a delimiter, the
\* text END, a line like the header of a block, and the end of a reply
Payloads ==
    {<<"x">>, <<>>, CRLF, <<"E", "N", "D">>, <<"E", "N", "D">> \o CRLF,
     <<"x">> \o CRLF \o <<"E", "N", "D">> \o CRLF,
     <<"V", "A", "L", "U", "E", " ", "b", " ", "0", " ", "1">> \o CRLF \o <<"y">> \o CRLF}

\* bytes of the reply arrive in the read buffer: one, or all that is left
Arrive ==
    /\ srv[1].sent # <<>>
    /\ \E n \in {1, Len(srv[1].sent)} :
          /\ conn' = [conn EXCEPT ![1].inb = @ \o SubSeq(srv[1].sent, 1, n)]
          /\ srv' = [srv EXCEPT ![1].sent = SubSeq(@, n + 1, Len(@))]
    /\ ev' = <<>>
    /\ UNCHANGED <<now, cfg, pool, cmd, fan>>

\* read_until has its line: fetch_cmd client.py:979-990 and 1000-1015
FetchLine ==
    /\ fan.st = "rd"
    /\ LET r     == read_until(conn[1].inb)
           line  == SubSeq(r.data, 1, Len(r.data) - 2)
           f     == split(line)
           nf    == IF cfg.expect_cas THEN 5 ELSE 4
           isval == Len(line) >= 5 /\ SubSeq(line, 1, 5) = <<"V", "A", "L", "U", "E">>
           exc   == CASE line = <<"E", "N", "D">> -> "none"
                      [] Len(line) >= 5 /\ SubSeq(line, 1, 5) = <<"E", "R", "R", "O", "R">> -> "unknown_command"
                      [] isval /\ Len(f) # nf -> "ValueError"
                      [] isval /\ (\E i \in 1..Len(f[4]) : f[4][i] \notin Range(Digits)) -> "ValueError"
                      [] isval -> "none"
                      [] OTHER -> "unknown"
       IN  /\ r.data # <<>>
           /\ conn' = [conn EXCEPT ![1].inb = r.rest]
           /\ fan' = IF exc # "none" THEN [fan EXCEPT !.st = "end", !.exc = exc]
                     ELSE IF line = <<"E", "N", "D">> THEN [fan EXCEPT !.st = "end"]
                     ELSE [fan EXCEPT !.st = "rdb", !.key = f[2], !.size = int(f[4]),
                                      !.cas = IF cfg.expect_cas THEN f[5] ELSE <<>>]
    /\ ev' = <<>>
    /\ UNCHANGED <<now, cfg, pool, cmd, srv>>

\* read_bytes has the payload and its delimiter: fetch_cmd client.py:992-999
FetchBytes ==
    /\ fan.st = "rdb"
    /\ LET r == read_bytes(conn[1].inb, fan.size + 2)
           value == SubSeq(r.data, 1, Len(r.data) - 2)
       IN  /\ r.data # <<>>
           /\ conn' = [conn EXCEPT ![1].inb = r.rest]
           /\ fan' = [fan EXCEPT !.st = "rd", !.reads = @ + 1,
                                 !.result = Put(@, fan.key,
                                                IF cfg.expect_cas THEN <<value, fan.cas>>
                                                ELSE value)]
    /\ ev' = <<>>
    /\ UNCHANGED <<now, cfg, pool, cmd, srv>>

\* The request of a get or a gets for the keys a and b is written; the server
\* holds some of them and answers; the reply of a later request may follow.
InitParse ==
    /\ now = 1
    /\ cmd = <<>>
    /\ ev = <<>>
    /\ pool = [free |-> <<>>, used |-> <<>>, ncl |-> 1]
    /\ cfg \in [expect_cas : BOOLEAN, later : {<<>>, <<"S", "T", "O", "R", "E", "D">> \o CRLF}]
    /\ \E blocks \in {<<>>} \cup
                     {<<[key |-> <<"a">>, data |-> d, cas |-> <<"7">>]>> : d \in Payloads} \cup
                     {<<[key |-> <<"a">>, data |-> d, cas |-> <<"7">>],
                        [key |-> <<"b">>, data |-> e, cas |-> <<"1", "2">>]>> :
                      d \in Payloads, e \in {<<"x">>, <<"E", "N", "D">> \o CRLF}} :
          srv = <<[blocks |-> blocks, sent |-> Reply(blocks, cfg.expect_cas) \o cfg.later]>>
    /\ conn = <<[NewConnection EXCEPT !.stream = "open"]>>
    /\ fan = [st |-> "rd", key |-> <<>>, size |-> 0, cas |-> <<>>, result |-> EmptyDict,
              reads |-> 0, exc |-> "none"]

NextParse ==
    \/ Arrive
    \/ FetchLine
    \/ FetchBytes

SpecParse == InitParse /\ [][NextParse]_vars

\* ---------------------------------------------------------------------------
\* One call, through a ClientPool of one Client or on a Client of its own,
\* with a callback that returns or raises, under a fair IOLoop: while
\* something can happen (the call can be made, a handler is ready, time can
\* pass, the peer can act), something does.
\* ---------------------------------------------------------------------------
LiveKinds ==
    {[NoKind EXCEPT !.name = "get", !.keys = <<k>>, !.boom = b] :
             k \in {"a"} \cup Spaced, b \in BOOLEAN}
    \cup {[NoKind EXCEPT !.name = "set", !.key = "a", !.val = "v1", !.noreply = r, !.boom = b] :
             r \in BOOLEAN, b \in BOOLEAN}

LiveCall ==
    /\ Unused(State) # {}
    /\ \E kind \in LiveKinds :
          Commit(call(State, NextId(State), IF cfg.mode = "pool" THEN 0 ELSE 1,
                      kind, 0, FALSE))

InitLive ==
    /\ now = 1
    /\ conn = <<NewConnection>>
    /\ cmd = <<NoCmd>>
    /\ ev = <<>>
    /\ srv = <<NewServer>>
    /\ fan = NoFan
    /\ cfg \in [size : {1}, ignore_exc : BOOLEAN, mode : {"pool", "direct"},
                server : {"any"}]
    /\ pool = [free |-> <<>>, used |-> <<>>, ncl |-> IF cfg.mode = "pool" THEN 0 ELSE 1]

NextLive == LiveCall \/ Events

SpecLive == InitLive /\ [][NextLive]_vars /\ WF_vars(NextLive)

\* ------------------------------------------------------------ properties
\* the server the Client routes key k to
ServerOf(k) == _get_server([cfg |-> cfg], k)
Evs == {ev[i] : i \in 1..Len(ev)}
Calls == {e \in Evs : e.t = "call"}
Ends == {e \in Evs : e.t = "end"}
Timers == {e \in Evs : e.t = "timer"}
Manys == {e \in Evs : e.t = "many"}

\* C1: for a ClientPool constructed with size > 0, in every reachable state
\* the free Clients plus the busy Clients are at most size.
C1_PoolWithinSize ==
    cfg.size > 0 => Len(pool.free) + Len(pool.used) <= cfg.size

\* a pool of size 2 at its capacity, after one command has completed and
\* given its Client back while another holds one
C1_AtCapacity ==
    /\ cfg.size = 2
    /\ Len(pool.free) = 1 /\ Len(pool.used) = 1
    /\ \E k \in CmdIds : cmd[k].st = "end" /\ cmd[k].ncb = 1

\* C2: _invoke raises MemcachePoolError in the call itself, with no callback
\* and with _clients and _used unchanged, exactly when _clients is empty and
\* size > 0 and free + busy >= size; in every other case it lends a Client.
C2_RaisesExactlyWhenFull ==
    \A e \in Calls :
        e.pooled =>
            /\ (e.lent = "raised") <=>
                   (e.free = 0 /\ cfg.size > 0 /\ e.free + e.used >= cfg.size)
            /\ e.lent = "raised" =>
                   /\ e.poolsame /\ e.free1 = e.free /\ e.used1 = e.used
                   /\ cmd[e.k].st = "end" /\ cmd[e.k].ncb = 0
            /\ e.lent # "raised" => e.lent = "lent" /\ e.cl \in Clients

\* a call raises on a full pool of size 1
C2_Raised ==
    \E e \in Calls : e.pooled /\ e.lent = "raised" /\ cfg.size = 1 /\ e.used = 1

\* C3: the Client of a completed pooled command is back in _clients before
\* the caller's callback runs: a pooled call made inside the callback, and
\* one made when every earlier call's callback has fired, is lent a Client.
C3_ReleasedBeforeCallback ==
    \A e \in Calls :
        e.pooled =>
            /\ e.parent # 0 => e.free >= 1 /\ e.lent = "lent"
            /\ (\A j \in 1..(e.k - 1) : cmd[j].ncb >= 1) => e.lent = "lent"

\* with size 1, the callback of a completed command makes a pooled call and
\* is lent the Client
C3_NestedLent ==
    \E e \in Calls : e.pooled /\ e.parent # 0 /\ e.lent = "lent" /\ cfg.size = 1

\* the requests of Connection c written and not yet answered in full
InFlight(c) ==
    {k \in CmdIds : /\ cmd[k].cl = c
                    /\ cmd[k].st \in {"wr", "rd", "rdb"}
                    /\ ExpectsReply(cmd[k])}

\* C4: a Connection never has two requests in flight: no command is written
\* before the reply to the previous one has been consumed.
C4_Serialized == \A c \in Clients : Cardinality(InFlight(c)) <= 1

C6_ReopensAfterQuarantine ==
    \A e \in Calls :
        e.elapsed => /\ e.socks1 = e.socks0 + 1
                     /\ e.stream1 = "connecting"
                     /\ e.st1 = "conn"

\* how a command ends on a transport failure: an IOError, a timeout, the
\* stream closed under it with an error
TransportCauses == {"io", "timeout", "attr_close"}

\* C7: when a command ends on a transport failure, the Connection is
\* quarantined (dead_until > now, stream closed, timer removed) by the time
\* its callback is called or its error leaves.
C7_DeadBeforeOutcome ==
    \A f \in Ends :
        f.cause \in TransportCauses =>
            f.qdead /\ f.qstream \in {"closed", "none"} /\ ~f.qtimer

\* C8: with ignore_exc, a command that hits a transport failure calls the
\* caller's callback exactly once, with the degraded result, and raises
\* nothing.
C8_DegradedOnce ==
    cfg.ignore_exc =>
        \A f \in Ends :
            f.cause \in TransportCauses =>
                f.ncb = 1 /\ f.exc = "none" /\ f.ures \in {"None", "False"}

\* C9: an ERROR, CLIENT_ERROR or SERVER_ERROR reply leaves the command as the
\* matching exception, with or without ignore_exc, and never as a result.
C9_ProtocolErrorsPropagate ==
    \A f \in Ends :
        f.cause \in {"unknowncmd", "clienterr", "servererr"} =>
            f.exc = f.cause /\ f.ncb = 0

\* C10: when a timer of a Connection fires with a command in flight, the
\* Connection is marked dead and no command of it is left pending; a command
\* that completes normally has removed the timer when its callback runs.
C10_TimerEndsInFlight ==
    /\ \A e \in Timers :
          e.before > 0 =>
              /\ conn[e.cl].dead_until = now + DeadRetry
              /\ conn[e.cl].stream \in {"closed", "none"}
              /\ e.pending = 0
    /\ \A f \in Ends : f.cause = "ok" => ~f.qtimer

\* the commands that write key k
Writers(k) == {j \in DOMAIN cmd : cmd[j].key = k}

C11_IllegalBeforeSocket ==
    /\ \A e \in Calls :
          (~e.sub /\ IllegalInput(e)) =>
              /\ e.socks1 = e.socks0 /\ e.stream1 = e.stream0
              /\ \E f \in Ends : f.k = e.k /\ f.exc = "illegal" /\ f.ccalls = 0
    /\ \A e \in Manys :
          (\E i \in 1..Len(e.keys) : IllegalKey(e.keys[i])) =>
              e.exc = "illegal" /\ e.socks1 = e.socks0 /\ e.wr1 = e.wr0
\* every request a multi-key call has to make has been made and is over
AllAnswered ==
    /\ Cardinality(fan.subs) = fan.targets
    /\ \A j \in fan.subs : cmd[j].st = "end"

\* C15: get_many / gets_many invoke the caller's callback exactly once:
\* never before the request to every targeted server has replied or failed,
\* and always once they all have (a failed one counts as answered).
C15_CallbackExactlyOnce ==
    fan.name \in {"get_many", "gets_many"} =>
        /\ fan.ncb <= 1
        /\ fan.ncb = 1 => fan.unans = 0
        /\ AllAnswered => fan.ncb = 1
\* the requested items that the servers in S hold
Held(S) ==
    LET K == {k \in Range(fan.keys) : ServerOf(k) \in S /\ k \in DOMAIN srv[ServerOf(k)].d}
    IN  [k \in K |-> srv[ServerOf(k)].d[k].v]

\* the servers whose connection has not failed
Healthy == {c \in DOMAIN conn : conn[c].stream = "open" /\ conn[c].dead_until = 0
                                /\ conn[c].socks = 1}

\* C16: with ignore_exc, a get_many over several servers of which one is
\* quarantined or fails in transport still completes (no request of it is
\* left waiting on a connection that has failed), and returns exactly the
\* stored keys held by the healthy servers.
C16_DegradedFanOut ==
    (cfg.ignore_exc /\ fan.name = "get_many") =>
        /\ \A j \in fan.subs : cmd[j].st # "lost"
        /\ fan.ncb = 1 =>
              /\ \A k \in DOMAIN Held(Healthy) :
                    k \in DOMAIN fan.ures /\ fan.ures[k] = Held(Healthy)[k]
              /\ \A k \in DOMAIN fan.ures :
                    k \in DOMAIN Held(Servers) /\ fan.ures[k] = Held(Servers)[k]
\* the requests the multi-key call has written to server c
SentTo(c) == SelectSeq(fan.sent, LAMBDA r : r.cn = c)

\* C17: get_many / gets_many partition the keys by the server each resolves
\* to and write one get / gets request per targeted server, carrying exactly
\* the keys routed there: no key is requested from two servers, no server
\* gets two requests for one call, and a server whose request has got past
\* connect has got exactly one.
C17_OneRequestPerServer ==
    fan.name \in {"get_many", "gets_many"} =>
        /\ \A c \in Servers :
              /\ Len(SentTo(c)) <= 1
              /\ \A i \in 1..Len(SentTo(c)) :
                    /\ SentTo(c)[i].name = (IF fan.name = "get_many" THEN "get" ELSE "gets")
                    /\ Range(SentTo(c)[i].keys)
                         = {k \in Range(fan.keys) : ServerOf(k) = c}
              /\ (\E j \in fan.subs : cmd[j].cn = c /\ cmd[j].st \in {"wr", "rd", "rdb"})
                    => Len(SentTo(c)) = 1
        /\ \A i, j \in 1..Len(fan.sent) :
              i # j => Range(fan.sent[i].keys) \cap Range(fan.sent[j].keys) = {}
        /\ \A i, j \in fan.subs : i # j => cmd[i].cn # cmd[j].cn

\* a get_many over keys of two servers has written its request to both
C17_BothWritten ==
    /\ fan.name \in {"get_many", "gets_many"}
    /\ Len(SentTo(1)) = 1 /\ Len(SentTo(2)) = 1
    /\ fan.ncb = 1 /\ DOMAIN fan.ures = {"a", "b"}
\* C18: a get of a key that was never stored returns None and a gets of it
\* (None, None), a get or gets of a stored key answered by the server
\* returns its value; the map of a get_many over stored and unstored keys
\* has entries for stored keys only, and for all of them when every
\* targeted server has answered.
C18_AbsentMeansNone ==
    /\ \A f \in Ends :
          (~f.sub /\ IsFetch(f.name) /\ f.ncb = 1) =>
              LET k == f.keys[1]
                  d == srv[ServerOf(k)].d
              IN  /\ k \notin DOMAIN d =>
                        f.ures = (IF f.name = "gets" THEN <<"None", "None">> ELSE "None")
                  /\ (k \in DOMAIN d /\ f.cause = "ok") =>
                        f.ures = (IF f.name = "gets" THEN <<d[k].v, d[k].cas>>
                                  ELSE d[k].v)
    /\ (fan.name = "get_many" /\ fan.ncb = 1) =>
          /\ \A k \in DOMAIN fan.ures :
                k \in DOMAIN Held(Servers) /\ fan.ures[k] = Held(Servers)[k]
          /\ (\A j \in fan.subs : cmd[j].cn \in Healthy) => fan.ures = Held(Servers)

\* a gets of a key no server holds has returned (None, None), then a
\* get_many of a stored and an unstored key a map with the stored one only
C18_StoredOnly ==
    /\ \E j \in DOMAIN cmd :
          cmd[j].did = "gets" /\ cmd[j].ncb = 1 /\ cmd[j].ures = <<"None", "None">>
    /\ fan.name = "get_many" /\ fan.ncb = 1 /\ fan.keys = <<"a", "b">>
    /\ Healthy = Servers
    /\ DOMAIN fan.ures = {"a"}
\* C13: set_many(values) issues one set per key, carrying that key's own
\* value values[k]; when set_many(values, noreply=False) has completed, the
\* result map has one entry per key of values and a get(k) answered by the
\* server returns values[k].
C13_SetManyOwnValues ==
    fan.name = "set_many" =>
        /\ \A j \in fan.subs : cmd[j].val = fan.values[cmd[j].key]
        /\ \A i, j \in fan.subs : i # j => cmd[i].key # cmd[j].key
        /\ fan.ncb = 1 => DOMAIN fan.ures = DOMAIN fan.values
        /\ (fan.ncb = 1 /\ ~fan.noreply) =>
              \A f \in Ends :
                  (f.name = "get" /\ f.cause = "ok" /\ f.keys[1] \in DOMAIN fan.values)
                      => f.ures = fan.values[f.keys[1]]

\* the delete requests of a delete_many that the servers have not yet served
Unserved ==
    {c \in DOMAIN conn : \E i \in 1..Len(conn[c].wire) : conn[c].wire[i].name = "delete"}

\* C14: delete_many(keys, noreply=False) sends one plain delete per key, with
\* the noreply it was given, and invokes its callback only when the server
\* has acknowledged every one of them, with True for a key that was deleted
\* and False for one that was not found.
C14_DeleteManyAcked ==
    fan.name = "delete_many" =>
        /\ \A j \in fan.subs : cmd[j].noreply = fan.noreply
        /\ \A i, j \in fan.subs : i # j => cmd[i].key # cmd[j].key
        /\ (fan.ncb = 1 /\ ~fan.noreply /\ fan.keys # <<>>) =>
              /\ Unserved = {}
              /\ DOMAIN fan.ures = Range(fan.keys)
              /\ \A k \in DOMAIN fan.ures : fan.ures[k] \in {"True", "False"}

\* C19: a broadcast delivers to the caller's callback a map whose keys are
\* exactly the configured server addresses, the value of each address being
\* the response the command on that server produced.
C19_MapByAddress ==
    (fan.name = "broadcast" /\ fan.ncb >= 1) =>
        /\ DOMAIN fan.ures = Range(Hosts)
        /\ \A h \in DOMAIN fan.ures :
              \E k \in DOMAIN fan.heard :
                 /\ fan.heard[k].host = h
                 /\ Hosts[conn[fan.heard[k].cn].sv] = h
                 /\ fan.ures[h] = fan.heard[k].v

\* C20: a broadcast over n servers invokes the caller's callback exactly
\* once: not before the command of every server has given its response, and
\* once they all have, whatever the responses are.
C20_OnceAfterAll ==
    fan.name = "broadcast" =>
        /\ fan.ncb <= 1
        /\ fan.ncb = 1 => fan.unans = 0
        /\ Cardinality(DOMAIN fan.heard) = Len(Hosts) => fan.ncb = 1

\* C23: a Connection never has more than one connect attempt in flight: a
\* call made while the handshake is pending queues its caller in connect and
\* creates no socket.
C23_OneHandshake ==
    \A e \in Calls :
        (e.lent # "raised" /\ e.stream0 = "connecting" /\ ~e.quar) =>
            /\ e.socks1 = e.socks0
            /\ e.stream1 = "connecting"
            /\ e.st1 = "conn"

\* a call is made on a Connection whose handshake is pending
C23_QueuedBehind ==
    \E e \in Calls : e.stream0 = "connecting" /\ e.st1 = "conn" /\ e.socks1 = 1

\* C24: the callers queued on a connect attempt are resumed together when it
\* resolves, by success, socket error or connect timeout: no command waits in
\* connect on a Connection whose attempt is over.
C24_QueueResumed ==
    \A k \in DOMAIN cmd :
        cmd[k].st = "conn" => conn[cmd[k].cn].stream = "connecting"

\* C25: the reply line of a store command sent without noreply goes through
\* the acceptance table of the command: set accepts STORED; add, replace,
\* append and prepend accept STORED and NOT_STORED; cas accepts STORED, EXISTS
\* and NOT_FOUND.  An accepted line gives the result True (STORED), False
\* (NOT_STORED, EXISTS) or None (NOT_FOUND); any other line is an
\* unknown-reply error and never a result.
C25_StoreReplyTable ==
    \A e \in Ends :
        (IsStore(e.name) /\ ~e.noreply /\ e.line # "none") =>
            IF e.line \in (CASE e.name = "set" -> {"STORED"}
                             [] e.name = "cas" -> {"STORED", "EXISTS", "NOT_FOUND"}
                             [] OTHER -> {"STORED", "NOT_STORED"})
            THEN /\ e.exc = "none" /\ e.ncb = 1
                 /\ e.ures = (CASE e.line = "STORED" -> "True"
                                [] e.line = "NOT_FOUND" -> "None"
                                [] OTHER -> "False")
            ELSE e.exc = "unknown" /\ e.ncb = 0

\* C26: a store command issued with noreply completes with True when its
\* write is flushed: it never reads from the connection, and no timer is
\* armed when it has completed.
C26_NoreplyStore ==
    /\ \A k \in DOMAIN cmd :
          (IsStore(cmd[k].name) /\ cmd[k].noreply) =>
              cmd[k].st \notin {"rd", "rdb"} /\ conn[cmd[k].cn].reader # k
    /\ \A e \in Ends :
          (IsStore(e.name) /\ e.noreply /\ e.cause = "ok") =>
              /\ e.line = "none"
              /\ e.ccalls = 1 /\ e.cres = "True"
              /\ e.ncb = 1 /\ e.ures = "True"
              /\ ~e.qtimer /\ ~conn[e.cn].timeout.armed

\* a cas with noreply has completed on its write
C26_CasFlushed ==
    \E e \in Ends : e.name = "cas" /\ e.noreply /\ e.cause = "ok" /\ e.ures = "True"

\* C27: delete returns True when issued with noreply; otherwise True when
\* the server answered DELETED and False when it answered NOT_FOUND.
C27_DeleteResult ==
    \A e \in Ends :
        (e.name = "delete" /\ e.cause = "ok") =>
            /\ e.ncb = 1
            /\ e.noreply => e.ures = "True"
            /\ (~e.noreply /\ e.cres = "DELETED") => e.ures = "True"
            /\ (~e.noreply /\ e.cres = "NOT_FOUND") => e.ures = "False"
            /\ ~e.noreply => e.cres \in {"DELETED", "NOT_FOUND"}

\* a delete without noreply of a key that is not stored has returned False
C27_NotFoundFalse ==
    \E e \in Ends : e.name = "delete" /\ ~e.noreply /\ e.cres = "NOT_FOUND"
                     /\ e.ures = "False" /\ "a" \notin DOMAIN srv[1].d

\* the commands between j and k that changed the key of command k: a set, a
\* cas that returned True, a delete; Removed: the last of them is a delete
Changed(j, k) ==
    {i \in DOMAIN cmd :
        /\ j < i /\ i < k
        /\ cmd[i].key = cmd[k].key
        /\ \/ cmd[i].did = "set"
           \/ cmd[i].did = "cas" /\ cmd[i].ures = "True"
           \/ cmd[i].did = "delete"}
Removed(j, k) ==
    \E i \in Changed(j, k) : cmd[i].did = "delete" /\ \A h \in Changed(j, k) : h <= i

\* C28: cas(k, v, t) without noreply returns True when t is the token the
\* latest gets(k) returned and k was not modified since, False when k was
\* modified after that gets (a second cas with the same token included), and
\* None when k does not exist.
C28_CasByToken ==
    \A k \in DOMAIN cmd : \A j \in DOMAIN cmd :
        (/\ cmd[k].did = "cas" /\ cmd[k].ncb = 1
         /\ j < k /\ cmd[j].did = "gets" /\ cmd[j].ncb = 1
         /\ \A i \in DOMAIN cmd : (j < i /\ i < k) => cmd[i].did # "gets") =>
            IF cmd[j].ures[1] = "None"
            THEN Changed(j, k) = {} => cmd[k].ures = "None"
            ELSE /\ (Changed(j, k) = {} /\ cmd[j].ures[2] = cmd[k].tok)
                       => cmd[k].ures = "True"
                 /\ (Changed(j, k) # {} /\ ~Removed(j, k) /\ cmd[j].ures[2] = cmd[k].tok)
                       => cmd[k].ures = "False"
                 /\ Removed(j, k) => cmd[k].ures = "None"

\* gets, cas with its token (True), and the same cas again (False)
C28_SecondCasStale ==
    /\ cmd[1].did = "gets" /\ cmd[1].ncb = 1
    /\ cmd[2].did = "cas" /\ cmd[2].ures = "True"
    /\ cmd[3].did = "cas" /\ cmd[3].ures = "False" /\ cmd[3].tok = cmd[2].tok

\* C21: a command given the address of a configured server (flush_all, quit)
\* runs on the Connection of that server and on no other, whatever the state
\* of that Connection.
C21_AddressedServer ==
    \A k \in DOMAIN cmd :
        (cmd[k].host # "none" /\ cmd[k].cn # 0) =>
            Hosts[conn[cmd[k].cn].sv] = cmd[k].host

\* C22: a command issued on a Connection that quit has closed opens a new
\* socket and goes on to wait for the handshake.
ClosedByQuit(c) ==
    \E j \in DOMAIN cmd : cmd[j].did = "quit" /\ cmd[j].cn = c /\ cmd[j].ncb = 1

C22_ReopenAfterQuit ==
    \A i \in DOMAIN ev :
        (ev[i].t = "call" /\ ev[i].stream0 = "closed" /\ ~ev[i].quar
            /\ ~ev[i].elapsed /\ ClosedByQuit(ev[i].cn)) =>
                /\ ev[i].socks1 = ev[i].socks0 + 1
                /\ ev[i].stream1 = "connecting"
                /\ ev[i].st1 = "conn"

\* C29: the bucket table has as many slots as the weights add up to, server i
\* fills exactly weight i of them, and no step changes the table.
RECURSIVE Total(_)
Total(w) == IF w = <<>> THEN 0 ELSE Head(w) + Total(Tail(w))

Slots(i) == {p \in DOMAIN cfg.buckets : cfg.buckets[p] = i}

C29_BucketTable ==
    /\ [](/\ Len(cfg.buckets) = Total(cfg.weights)
          /\ \A i \in DOMAIN cfg.weights : Cardinality(Slots(i)) = cfg.weights[i])
    /\ [][cfg.buckets' = cfg.buckets]_vars

\* weights 1 and 3: four slots, three of them the second server, still so
\* after a get completed on the second server
C29_ThreeOfFour ==
    /\ cfg.weights = <<1, 3>>
    /\ Len(cfg.buckets) = 4
    /\ Cardinality(Slots(2)) = 3
    /\ \E k \in DOMAIN cmd :
          cmd[k].st = "end" /\ cmd[k].did = "get" /\ cmd[k].ncb = 1 /\ cmd[k].cn = 2

\* C30: a command given a key runs on buckets[h mod len(buckets)], h being the
\* hash of an explicit (hash, key) pair, else the key's hash when there is
\* more than one bucket, else 0; two commands given the same key run on the
\* same Connection, whatever happened to it in between.
GivenHash(arg) ==
    CASE arg = "t1a" -> 1
      [] arg = "t6a" -> 6
      [] arg = "tm1b" -> -1
      [] OTHER -> IF Len(cfg.buckets) > 1 THEN cfg.hash[arg] ELSE 0

C30_PureRouting ==
    \A k \in DOMAIN cmd :
        cmd[k].arg # "none" =>
            /\ cmd[k].cn = cfg.buckets[(GivenHash(cmd[k].arg) % Len(cfg.buckets)) + 1]
            /\ \A j \in DOMAIN cmd : cmd[j].arg = cmd[k].arg => cmd[j].cn = cmd[k].cn

\* a key whose Connection was refused is asked for again during the
\* quarantine: the second command is refused on the same Connection although
\* the other server has buckets too
C30_SameServerWhileDead ==
    \E j, k \in DOMAIN cmd :
        /\ j < k
        /\ Len(cfg.buckets) > 1
        /\ cmd[j].arg # "none" /\ cmd[j].arg = cmd[k].arg
        /\ cmd[j].st = "end" /\ cmd[k].st = "end"
        /\ cmd[j].cn = cmd[k].cn
        /\ conn[cmd[k].cn].dead_until > now
        /\ \E i \in DOMAIN ev : ev[i].t = "end" /\ ev[i].k = k /\ ev[i].cause = "dead"

\* C31: mark_dead called on a Connection that is not within quarantine
\* (now < _dead_until does not hold) sets _dead_until = now + dead_retry,
\* leaves no timer armed and no socket open; called within quarantine it
\* changes nothing.
C31_MarkDeadOnce ==
    \A i \in DOMAIN ev :
        ev[i].t = "dead" =>
            /\ ~(ev[i].at < ev[i].du0) =>
                  /\ ev[i].du1 = ev[i].at + DeadRetry
                  /\ ~ev[i].qtimer
                  /\ ev[i].stream1 \notin {"connecting", "open"}
            /\ ev[i].at < ev[i].du0 => ev[i].same

\* C32: on a Client without servers a command given a key ends by calling
\* its callback once with the absence result, None ((None, None) for gets),
\* a multi-key call by calling it once with a result for each key (False in
\* set_many and delete_many), and no exception leaves the call.
C32_AbsentWithoutServers ==
    cfg.buckets = <<>> =>
        /\ \A i \in DOMAIN ev :
              /\ ev[i].t \in {"call", "end", "many"} => ev[i].exc = "none"
              /\ ev[i].t = "call" => ev[i].st1 = "end"
              /\ ev[i].t = "many" =>
                    /\ fan.ncb = 1
                    /\ DOMAIN fan.ures = IF fan.name = "set_many"
                                         THEN DOMAIN fan.values ELSE Range(fan.keys)
                    /\ fan.name \in {"set_many", "delete_many"} =>
                          \A k \in DOMAIN fan.ures : fan.ures[k] = "False"
        /\ \A k \in DOMAIN cmd :
              cmd[k].st = "end" =>
                  /\ cmd[k].ncb = 1
                  /\ cmd[k].did # "gets" => cmd[k].ures = "None"
                  /\ cmd[k].did = "gets" => cmd[k].ures = <<"None", "None">>

\* C33: a get issued through the pool right after a set(k, v, noreply=False)
\* of the same key, in the same turn, receives v (k written by that set only).
C33_SetThenGetAtOnce ==
    \A f \in Ends :
        (f.name = "get" /\ f.cause = "ok" /\ cmd[f.k].after # 0) =>
            LET j == cmd[f.k].after IN
            (cmd[j].did \in {"set", "none"} /\ Writers(f.keys[1]) = {j})
                => f.ures = cmd[j].val

\* C34: no request written to a socket holds a key with a space, CR or LF,
\* and a command given such a key ends with MemcacheIllegalInputError.
White(key) == key \in Spaced \cup Newlined

C34_NoWhitespaceWritten ==
    /\ \A c \in DOMAIN conn : \A i \in DOMAIN conn[c].wire :
          /\ ~White(conn[c].wire[i].key)
          /\ \A j \in DOMAIN conn[c].wire[i].keys : ~White(conn[c].wire[i].keys[j])
    /\ \A e \in Ends :
          (White(e.key) \/ \E j \in DOMAIN e.keys : White(e.keys[j]))
              => e.cause = "illegal"

\* C35: fetch_cmd reads exactly <bytes>+2 bytes after each VALUE line and
\* goes on with the line right after them: whatever the payloads hold (a
\* CRLF, the text END, a line like a VALUE header), when the loop has met
\* the END of the reply no error was raised, the map holds exactly the blocks
\* the server sent, each payload intact (with its cas for a gets), one
\* read_bytes was made for each block, and what follows the reply is still
\* unread.
Expected(blocks) ==
    [k \in {blocks[i].key : i \in 1..Len(blocks)} |->
        LET b == blocks[CHOOSE i \in 1..Len(blocks) :
                          blocks[i].key = k /\ \A j \in (i + 1)..Len(blocks) : blocks[j].key # k]
        IN  IF cfg.expect_cas THEN <<b.data, b.cas>> ELSE b.data]

C35_PayloadIntact ==
    fan.st = "end" =>
        /\ fan.exc = "none"
        /\ fan.result = Expected(srv[1].blocks)
        /\ fan.reads = Len(srv[1].blocks)
        /\ conn[1].inb \o srv[1].sent = cfg.later

C35_DelimiterInPayload ==
    /\ fan.st = "end"
    /\ cfg.expect_cas
    /\ Len(srv[1].blocks) = 2
    /\ srv[1].blocks[1].data = <<"V", "A", "L", "U", "E", " ", "b", " ", "0", " ", "1">> \o CRLF \o <<"y">> \o CRLF
    /\ srv[1].blocks[2].data = <<"E", "N", "D">> \o CRLF
    /\ cfg.later # <<>>

\* C36: a Client that _invoke moved to _used goes back to _clients once its
\* command has ended, however it ended: when the one call made through the
\* pool is over, its Client is eventually out of _used and in _clients again.
C36_ClientReturned ==
    (cfg.mode = "pool" /\ cmd[1].st = "end") ~> (pool.used = <<>> /\ pool.free = <<1>>)

\* C40: under a fair event loop every command a Connection has accepted ends:
\* a generator that waits in connect, for its write, for a line or a payload,
\* or on a stream closed under it, is eventually over (its callback invoked
\* or an error raised).
C40_EveryCommandEnds ==
    (cmd[1].st \in Suspended) ~> (cmd[1].st = "end")

\* C37: the caller's callback is invoked at most once for a command, also
\* when the callback itself raises.
C37_CallbackAtMostOnce ==
    \A k \in DOMAIN cmd : cmd[k].ncb <= 1

\* C38: while no command is in flight on a Connection no timer is armed on
\* it: however the command ended, its request timer was cleared.
C38_NoTimerWhenIdle ==
    \A c \in DOMAIN conn :
        (\A k \in DOMAIN cmd : cmd[k].st \notin Suspended) => ~conn[c].timeout.armed

\* C39: every Client the pool has made is in exactly one of _clients and
\* _used, once, and a Client in _used serves exactly one call that is still
\* under way.
Outstanding(c) == {k \in DOMAIN cmd : cmd[k].pooled /\ cmd[k].cl = c /\ cmd[k].st \in Suspended}

C39_FreeOrBusy ==
    /\ Len(pool.free) + Len(pool.used) = pool.ncl
    /\ \A c \in 1..pool.ncl : InSeq(c, pool.free) # InSeq(c, pool.used)
    /\ \A c \in 1..pool.ncl : InSeq(c, pool.used) => Cardinality(Outstanding(c)) = 1
=============================================================================
